---------------------------- MODULE Spec2Model ----------------------------
(***************************************************************************)
(* Model of secretstore-private-js: promise-returning facades over the     *)
(* Parity Secret Store HTTP sessions (src/secretstore/session.js and the   *)
(* copies in src/secretstore.js), the Secret Store JSON-RPC methods and    *)
(* the Private Transaction JSON-RPC methods, with the helpers of           *)
(* src/utils.js.                                                           *)
(*                                                                         *)
(* JavaScript strings are sequences of characters (each character a        *)
(* one-letter TLA+ string; DQ is the double quote, LF the line feed).      *)
(* JavaScript values are records tagged by the field t.                    *)
(***************************************************************************)
EXTENDS Integers, Sequences, FiniteSets, TLC

(* ------------------------------ bounds --------------------------------- *)

\* thresholds 0..MaxThreshold are passed to the key generation sessions
MaxThreshold == 2
\* response bodies: every string of at most this length over a double quote,
\* a line feed and a letter
MaxBodyLen == 3
\* the functions of utils.js are applied to every string of at most this
\* length
MaxStrLen == 3
\* at most this many calls are made in the behaviours with several calls
MaxCalls == 2
\* a transport invokes the callback of one request at most this many times
\* in the behaviours with repeated callbacks
MaxCallbacks == 2

(* --------------------------- characters -------------------------------- *)

DQ == "DQ"
LF == "LF"
CR == "CR"

\* the line terminators of ECMAScript, which the regular expression
\* atom . does not match (U+2028 and U+2029 are left out of the inputs)
LineTerminators == {LF, CR}

(* ------------------------- JavaScript values --------------------------- *)

Undefined == [t |-> "undefined"]
Null == [t |-> "null"]
Str(s) == [t |-> "string", chars |-> s]
Num(n) == [t |-> "number", n |-> n]
Arr(items) == [t |-> "array", items |-> items]
\* a plain object: its own properties in insertion order
Obj(props) == [t |-> "object", props |-> props]
Prop(k, v) == [key |-> k, val |-> v]

\* an Error object made by somebody else than this library; id is its identity
ErrorObject(id) == [t |-> "error", name |-> "Error", id |-> id]
\* the exceptions the JavaScript engine raises
ReferenceError(ident) == [t |-> "error", name |-> "ReferenceError", ident |-> ident]
TypeError(what) == [t |-> "error", name |-> "TypeError", what |-> what]
SyntaxError(what) == [t |-> "error", name |-> "SyntaxError", what |-> what]

\* ToBoolean: undefined, null, 0, "" and false are falsy
Truthy(v) ==
    CASE v.t = "undefined" -> FALSE
      [] v.t = "null" -> FALSE
      [] v.t = "boolean" -> v.b
      [] v.t = "number" -> v.n # 0
      [] v.t = "string" -> v.chars # << >>
      [] OTHER -> TRUE

\* Number::toString for the naturals
RECURSIVE Digits(_)
Digits(n) ==
    LET d == <<"0", "1", "2", "3", "4", "5", "6", "7", "8", "9">>[(n % 10) + 1]
    IN IF n < 10 THEN <<d>> ELSE Digits(n \div 10) \o <<d>>

RECURSIVE JoinItems(_)
\* ToString(value): what string concatenation with + appends
ToStringChars(v) ==
    CASE v.t = "string" -> v.chars
      [] v.t = "number" -> Digits(v.n)
      [] v.t = "undefined" -> <<"u", "n", "d", "e", "f", "i", "n", "e", "d">>
      [] v.t = "null" -> <<"n", "u", "l", "l">>
      [] v.t = "boolean" -> IF v.b THEN <<"t", "r", "u", "e">> ELSE <<"f", "a", "l", "s", "e">>
      [] v.t = "array" -> JoinItems(v.items)
      [] OTHER -> <<"[", "o", "b", "j", "e", "c", "t", " ", "O", "b", "j", "e", "c", "t", "]">>

\* Array.prototype.join(","): null and undefined items give the empty string
JoinItems(items) ==
    IF items = << >> THEN << >>
    ELSE LET h == Head(items)
             hs == IF h.t \in {"undefined", "null"} THEN << >> ELSE ToStringChars(h)
         IN IF Len(items) = 1 THEN hs ELSE hs \o <<",">> \o JoinItems(Tail(items))

StartsWith(s, p) == Len(s) >= Len(p) /\ SubSeq(s, 1, Len(p)) = p

(* ------------------------------ utils.js ------------------------------- *)

\* faulty variant of remove0x: a second 0x prefix is removed too
remove0x_twice(val) ==
    IF val.t \in {"undefined", "null"} THEN << >>
    ELSE LET str == ToStringChars(val)
             once == IF StartsWith(str, <<"0", "x">>) THEN SubSeq(str, 3, Len(str)) ELSE str
         IN IF StartsWith(once, <<"0", "x">>) THEN SubSeq(once, 3, Len(once)) ELSE once

\* faulty variant of remove0x: null and undefined are converted like
\* every other value
remove0x_nullAsText(val) ==
    LET str == ToStringChars(val)
    IN IF StartsWith(str, <<"0", "x">>) THEN SubSeq(str, 3, Len(str)) ELSE str

\* remove0x(val): "" for undefined and null, else val.toString() without a
\* leading "0x"
remove0x(val) ==
    IF val.t \in {"undefined", "null"} THEN << >>
    ELSE LET str == ToStringChars(val)
         IN IF StartsWith(str, <<"0", "x">>) THEN SubSeq(str, 3, Len(str)) ELSE str

\* faulty variant of add0x: the prefix is prepended to every string
add0x_always(str) ==
    IF str.t # "string" THEN [ok |-> FALSE, thrown |-> TypeError("str.startsWith is not a function")]
    ELSE [ok |-> TRUE, val |-> Str(<<"0", "x">> \o str.chars)]

\* add0x(str): str.startsWith exists on strings only; the result is
\* [ok |-> FALSE, thrown |-> TypeError] when the call raises
add0x(str) ==
    IF str.t # "string" THEN [ok |-> FALSE, thrown |-> TypeError("str.startsWith is not a function")]
    ELSE IF ~StartsWith(str.chars, <<"0", "x">>)
         THEN [ok |-> TRUE, val |-> Str(<<"0", "x">> \o str.chars)]
         ELSE [ok |-> TRUE, val |-> str]

\* str.replace(/^"(.*)"$/, '$1'): the pattern matches the whole string when it
\* starts and ends with a double quote (two distinct characters) and no line
\* terminator stands between them; the match is replaced by the group
RegexMatchesQuoted(s) ==
    /\ Len(s) >= 2
    /\ s[1] = DQ
    /\ s[Len(s)] = DQ
    /\ \A i \in 2..(Len(s) - 1) : s[i] \notin LineTerminators

removeEnclosingDQuotes(str) ==
    IF str.t # "string" THEN [ok |-> FALSE, thrown |-> TypeError("str.replace is not a function")]
    ELSE IF RegexMatchesQuoted(str.chars)
         THEN [ok |-> TRUE, val |-> Str(SubSeq(str.chars, 2, Len(str.chars) - 1))]
         ELSE [ok |-> TRUE, val |-> str]

(* -------------------------------- JSON ---------------------------------- *)

IsDigit(c) == c \in {"0", "1", "2", "3", "4", "5", "6", "7", "8", "9"}
DigitValue(c) ==
    CHOOSE k \in 0..9 : <<"0", "1", "2", "3", "4", "5", "6", "7", "8", "9">>[k + 1] = c
IsWhitespace(c) == c \in {" ", LF, CR, "\t"}

\* QuoteJSONString: the characters of a string between double quotes, the
\* double quote, the backslash and the control characters escaped
RECURSIVE QuoteChars(_)
QuoteChars(s) ==
    IF s = << >> THEN << >>
    ELSE LET c == Head(s)
             e == CASE c = DQ -> <<"\\", DQ>>
                    [] c = "\\" -> <<"\\", "\\">>
                    [] c = LF -> <<"\\", "n">>
                    [] c = CR -> <<"\\", "r">>
                    [] c = "\t" -> <<"\\", "t">>
                    [] OTHER -> <<c>>
         IN e \o QuoteChars(Tail(s))

RECURSIVE SerializeJSON(_)
RECURSIVE SerializeItems(_)
RECURSIVE SerializeProps(_)
\* SerializeJSONProperty for the values of the model: the text as a sequence
\* of characters (undefined has no text: the caller decides)
SerializeJSON(v) ==
    CASE v.t = "string" -> <<DQ>> \o QuoteChars(v.chars) \o <<DQ>>
      [] v.t = "number" -> Digits(v.n)
      [] v.t = "null" -> <<"n", "u", "l", "l">>
      [] v.t = "array" -> <<"[">> \o SerializeItems(v.items) \o <<"]">>
      [] v.t = "object" -> <<"{">> \o SerializeProps(v.props) \o <<"}">>
      [] OTHER -> <<"{", "}">>

\* array elements separated by commas; an undefined element is written null
SerializeItems(items) ==
    IF items = << >> THEN << >>
    ELSE LET h == Head(items)
             hs == IF h.t = "undefined" THEN <<"n", "u", "l", "l">> ELSE SerializeJSON(h)
         IN IF Len(items) = 1 THEN hs ELSE hs \o <<",">> \o SerializeItems(Tail(items))

\* object members "key":value separated by commas; undefined members are skipped
SerializeProps(props) ==
    IF props = << >> THEN << >>
    ELSE LET h == Head(props)
             rest == SerializeProps(Tail(props))
         IN IF h.val.t = "undefined" THEN rest
            ELSE LET hs == <<DQ>> \o QuoteChars(h.key) \o <<DQ, ":">> \o SerializeJSON(h.val)
                 IN IF rest = << >> THEN hs ELSE hs \o <<",">> \o rest

\* JSON.stringify(value): undefined for undefined, else a string
JSONstringify(v) == IF v.t = "undefined" THEN Undefined ELSE Str(SerializeJSON(v))

\* the parser's results: a value and the position after it, or [ok |-> FALSE]
ParseOk(v, pos) == [ok |-> TRUE, val |-> v, pos |-> pos]

RECURSIVE SkipWhitespace(_, _)
SkipWhitespace(s, i) ==
    IF i <= Len(s) /\ IsWhitespace(s[i]) THEN SkipWhitespace(s, i + 1) ELSE i

\* the characters after an opening double quote up to the closing one; a raw
\* control character or an unknown escape is a syntax error
RECURSIVE ScanString(_, _, _)
ScanString(s, j, acc) ==
    IF j > Len(s) THEN [ok |-> FALSE]
    ELSE IF s[j] = DQ THEN ParseOk(acc, j + 1)
    ELSE IF s[j] \in {LF, CR, "\t"} THEN [ok |-> FALSE]
    ELSE IF s[j] = "\\"
         THEN IF j + 1 > Len(s) THEN [ok |-> FALSE]
              ELSE LET c == s[j + 1]
                   IN CASE c = DQ -> ScanString(s, j + 2, Append(acc, DQ))
                        [] c = "\\" -> ScanString(s, j + 2, Append(acc, "\\"))
                        [] c = "/" -> ScanString(s, j + 2, Append(acc, "/"))
                        [] c = "n" -> ScanString(s, j + 2, Append(acc, LF))
                        [] c = "r" -> ScanString(s, j + 2, Append(acc, CR))
                        [] c = "t" -> ScanString(s, j + 2, Append(acc, "\t"))
                        [] OTHER -> [ok |-> FALSE]
    ELSE ScanString(s, j + 1, Append(acc, s[j]))

\* the digits of an integer after its first digit
RECURSIVE ScanDigits(_, _, _)
ScanDigits(s, j, n) ==
    IF j <= Len(s) /\ IsDigit(s[j]) THEN ScanDigits(s, j + 1, 10 * n + DigitValue(s[j]))
    ELSE ParseOk(Num(n), j)

\* CreateDataProperty: a repeated key keeps its place and takes the last value
SetProp(props, k, v) ==
    IF \E i \in 1..Len(props) : props[i].key = k
    THEN [i \in 1..Len(props) |-> IF props[i].key = k THEN Prop(k, v) ELSE props[i]]
    ELSE Append(props, Prop(k, v))

MatchesWord(s, i, w) == i + Len(w) - 1 <= Len(s) /\ SubSeq(s, i, i + Len(w) - 1) = w

RECURSIVE ParseValue(_, _)
RECURSIVE ParseElements(_, _, _)
RECURSIVE ParseMembers(_, _, _)
\* a JSON value starting at position i (strings, integers without sign,
\* fraction or exponent, null, true, false, arrays and objects)
ParseValue(s, i) ==
    IF i > Len(s) THEN [ok |-> FALSE]
    ELSE LET c == s[i]
         IN CASE c = DQ ->
                   LET r == ScanString(s, i + 1, << >>)
                   IN IF r.ok THEN ParseOk(Str(r.val), r.pos) ELSE [ok |-> FALSE]
              [] c = "[" ->
                   LET j == SkipWhitespace(s, i + 1)
                   IN IF j <= Len(s) /\ s[j] = "]" THEN ParseOk(Arr(<< >>), j + 1)
                      ELSE ParseElements(s, j, << >>)
              [] c = "{" ->
                   LET j == SkipWhitespace(s, i + 1)
                   IN IF j <= Len(s) /\ s[j] = "}" THEN ParseOk(Obj(<< >>), j + 1)
                      ELSE ParseMembers(s, j, << >>)
              [] c = "0" -> ParseOk(Num(0), i + 1)
              [] IsDigit(c) /\ c # "0" -> ScanDigits(s, i + 1, DigitValue(c))
              [] c = "n" /\ MatchesWord(s, i, <<"n", "u", "l", "l">>) -> ParseOk(Null, i + 4)
              [] c = "t" /\ MatchesWord(s, i, <<"t", "r", "u", "e">>) ->
                   ParseOk([t |-> "boolean", b |-> TRUE], i + 4)
              [] c = "f" /\ MatchesWord(s, i, <<"f", "a", "l", "s", "e">>) ->
                   ParseOk([t |-> "boolean", b |-> FALSE], i + 5)
              [] OTHER -> [ok |-> FALSE]

\* the elements of an array from position i (at an element) to its ]
ParseElements(s, i, acc) ==
    LET r == ParseValue(s, i)
    IN IF ~r.ok THEN [ok |-> FALSE]
       ELSE LET j == SkipWhitespace(s, r.pos)
                items == Append(acc, r.val)
            IN IF j > Len(s) THEN [ok |-> FALSE]
               ELSE IF s[j] = "]" THEN ParseOk(Arr(items), j + 1)
               ELSE IF s[j] = "," THEN ParseElements(s, SkipWhitespace(s, j + 1), items)
               ELSE [ok |-> FALSE]

\* the members of an object from position i (at a key) to its }
ParseMembers(s, i, acc) ==
    IF i > Len(s) \/ s[i] # DQ THEN [ok |-> FALSE]
    ELSE LET k == ScanString(s, i + 1, << >>)
         IN IF ~k.ok THEN [ok |-> FALSE]
            ELSE LET c == SkipWhitespace(s, k.pos)
                 IN IF c > Len(s) \/ s[c] # ":" THEN [ok |-> FALSE]
                    ELSE LET r == ParseValue(s, SkipWhitespace(s, c + 1))
                         IN IF ~r.ok THEN [ok |-> FALSE]
                            ELSE LET j == SkipWhitespace(s, r.pos)
                                     props == SetProp(acc, k.val, r.val)
                                 IN IF j > Len(s) THEN [ok |-> FALSE]
                                    ELSE IF s[j] = "}" THEN ParseOk(Obj(props), j + 1)
                                    ELSE IF s[j] = ","
                                         THEN ParseMembers(s, SkipWhitespace(s, j + 1), props)
                                    ELSE [ok |-> FALSE]

\* JSON.parse(text): text is converted to a string, one value is read between
\* optional whitespace, anything else raises a SyntaxError
JSONparse(text) ==
    LET s == ToStringChars(text)
        r == ParseValue(s, SkipWhitespace(s, 1))
    IN IF r.ok /\ SkipWhitespace(s, r.pos) > Len(s)
       THEN [ok |-> TRUE, val |-> r.val]
       ELSE [ok |-> FALSE, thrown |-> SyntaxError("Unexpected token in JSON")]

(* ------------------------- objects and operators ----------------------- *)

Bool(b) == [t |-> "boolean", b |-> b]

\* obj[key] of a plain object: undefined when the property is absent
GetProp(o, k) ==
    IF \E i \in 1..Len(o.props) : o.props[i].key = k
    THEN o.props[CHOOSE i \in 1..Len(o.props) : o.props[i].key = k].val
    ELSE Undefined

\* a default parameter value applies when the argument is undefined
DefaultParam(arg, dflt) == IF arg.t = "undefined" THEN dflt ELSE arg

\* the response object of the HTTP client
Response(code, message) ==
    [t |-> "response", statusCode |-> Num(code), statusMessage |-> Str(message)]

\* StringToNumber for the strings of digits ("" is 0); -1 stands for NaN
RECURSIVE DigitsToNumber(_, _)
DigitsToNumber(s, n) ==
    IF s = << >> THEN n
    ELSE IF IsDigit(Head(s)) THEN DigitsToNumber(Tail(s), 10 * n + DigitValue(Head(s)))
    ELSE -1

\* a != b of JavaScript (loose inequality) for b a number
LooseNotEquals(a, b) ==
    CASE a.t = "number" -> a.n # b.n
      [] a.t = "string" -> DigitsToNumber(a.chars, 0) # b.n
      [] a.t = "boolean" -> (IF a.b THEN 1 ELSE 0) # b.n
      [] OTHER -> TRUE

\* the status code the session callbacks compare with
HTTP_OK == 200

(* ---------------------- what a piece of code does ---------------------- *)

\* The effect of running a callback (or an executor): the lines it writes to
\* the console, the settle function it calls (resolve or reject) with its
\* argument, and the exception it raises, if any.
Resolve(logs, v) == [logs |-> logs, act |-> "resolve", val |-> v, threw |-> FALSE]
Reject(logs, v) == [logs |-> logs, act |-> "reject", val |-> v, threw |-> FALSE]
Throw(logs, exc) == [logs |-> logs, act |-> "none", val |-> exc, threw |-> TRUE]

\* utils.logFailedResponse(response, body, options): five console lines
logFailedResponse(response, body, options) ==
    << Str(<<"R", "e", "q", "u", "e", "s", "t", " ", "f", "a", "i", "l", "e", "d">>),
       Str(<<"S", "t", "a", "t", "u", "s", "C", "o", "d", "e", ":", " ">> \o ToStringChars(response.statusCode)),
       Str(<<"S", "t", "a", "t", "u", "s", "M", "e", "s", "s", "a", "g", "e", ":", " ">> \o ToStringChars(response.statusMessage)),
       Str(<<"B", "o", "d", "y", ":", " ">> \o ToStringChars(body)),
       Str(<<"R", "e", "q", "u", "e", "s", "t", " ", "o", "p", "t", "i", "o", "n", "s", ":", " ">> \o ToStringChars(JSONstringify(options))) >>

\* utils.logError(e): two console lines
logError(e) == << Str(<<"E", "r", "r", "o", "r", ":">>), e >>

(* ------------------------------ promises ------------------------------- *)

\* One facade call: the file and function called, its arguments, the verbose
\* argument as passed, the requests handed to the transport, whether the
\* transport still owes the callback, the arguments the callback was invoked
\* with, the promise (state and value) and the exceptions nobody caught.
NewCall(file, op, args, verbose, requests) ==
    [file |-> file, op |-> op, args |-> args, verbose |-> verbose,
     requests |-> requests, awaiting |-> requests # << >>, delivered |-> << >>,
     state |-> "pending", value |-> Undefined, uncaught |-> << >>]

\* resolve(v) and reject(v) settle a pending promise and do nothing otherwise
Settle(c, act, v) ==
    IF c.state = "pending" /\ act # "none"
    THEN [c EXCEPT !.state = IF act = "resolve" THEN "fulfilled" ELSE "rejected",
                   !.value = v]
    ELSE c

\* The promise after its callback ran with effect eff.  An exception leaves
\* the callback: when the transport invoked the callback before returning to
\* the executor (sync), the Promise constructor catches it and rejects the
\* promise if it is still pending; otherwise nobody catches it.
Deliver(c, eff, sync) ==
    LET s == Settle(c, eff.act, eff.val)
    IN IF ~eff.threw THEN s
       ELSE IF sync THEN Settle(s, "reject", eff.val)
       ELSE [s EXCEPT !.uncaught = Append(@, eff.val)]

(* ------------------------- the session errors -------------------------- *)

\* faulty variant of the constructor: the response is not kept
SecretStoreSessionError_messageOnly(message, response) ==
    [t |-> "error", name |-> "SecretStoreSessionError", message |-> Str(message),
     response |-> Undefined]

SecretStoreSessionError(message, response) ==
    [t |-> "error", name |-> "SecretStoreSessionError", message |-> Str(message),
     response |-> response]

SSRequestError(message, response) ==
    [t |-> "error", name |-> "SSRequestError", message |-> Str(message),
     response |-> response]

(* ------------------------------ JSON-RPC -------------------------------- *)

\* the id of every envelope
RpcId == 1

\* the envelope {jsonrpc: '2.0', method, params, id: 1}
Envelope(method, params) ==
    Obj(<< Prop(<<"j", "s", "o", "n", "r", "p", "c">>, Str(<<"2", ".", "0">>)), Prop(<<"m", "e", "t", "h", "o", "d">>, Str(method)),
           Prop(<<"p", "a", "r", "a", "m", "s">>, Arr(params)), Prop(<<"i", "d">>, Num(RpcId)) >>)

\* r.error and r.result: reading a property of undefined or null raises a
\* TypeError; a value that is no plain object has neither property
CanReadProps(r) == r.t \notin {"undefined", "null"}
ReadProp(r, k) == IF r.t = "object" THEN GetProp(r, k) ELSE Undefined

(* ------------------------------- state ---------------------------------- *)

\* calls: the facade calls made so far, in the order they were made
\* console: the lines written with console.log
VARIABLES calls, console

vars == <<calls, console>>

Init ==
    /\ calls = << >>
    /\ console = << >>

\* the calls of function op of file that await the callback of their request
Awaiting(file, op) ==
    {i \in DOMAIN calls : calls[i].file = file /\ calls[i].op = op /\ calls[i].awaiting}

\* a facade function is called: the executor of its promise ran
Issue(file, op, args, verboseArg, requests) ==
    /\ calls' = Append(calls, NewCall(file, op, args, verboseArg, requests))
    /\ UNCHANGED console

\* the transport invokes the callback of call i, which has effect eff
Receive(i, eff, cbargs, sync) ==
    /\ calls' = [calls EXCEPT ![i] =
                    [Deliver(@, eff, sync) EXCEPT !.awaiting = FALSE,
                                                  !.delivered = Append(@, cbargs)]]
    /\ console' = console \o eff.logs

\* the verbose parameter of every facade function: verbose=true
Verbose(c) == DefaultParam(c.verbose, Bool(TRUE))

(* ------------------------------- inputs --------------------------------- *)

\* all strings over the characters cs of length at most n
RECURSIVE StringsUpTo(_, _)
StringsUpTo(cs, n) ==
    IF n = 0 THEN {<< >>}
    ELSE LET shorter == StringsUpTo(cs, n - 1)
         IN shorter \cup {Append(w, c) : w \in shorter, c \in cs}

Verboses == {Undefined, Bool(TRUE), Bool(FALSE)}
Urls == {Str(<<"h", "t", "t", "p", ":", "/", "/", "s", "s">>)}
ServerKeyIDs == {Str(<<"0", "x", "a", "a">>), Str(<<"a", "a">>)}
SignedServerKeyIDs == {Str(<<"0", "x", "b", "b">>), Str(<<"b", "b">>)}
Thresholds == {Num(k) : k \in 0..MaxThreshold}
MessageHashes == {Str(<<"0", "x", "c", "c">>), Str(<<"c", "c">>)}
CommonPoints == {Str(<<"0", "x", "c", "1">>)}
EncryptedPoints == {Str(<<"0", "x", "e", "1">>), Str(<<"e", "1">>)}
NodeIDLists == {Arr(<< >>), Arr(<<Str(<<"0", "x", "n", "1">>), Str(<<"0", "x", "n", "2">>)>>), Arr(<<Str(<<"0", "x", "n", "2">>), Str(<<"0", "x", "n", "1">>)>>)}
SignaturesOldSet == {Str(<<"0", "x", "5", "1">>), Str(<<"5", "1">>)}
SignaturesNewSet == {Str(<<"0", "x", "5", "2">>), Str(<<"5", "2">>)}

\* the errors of the transports: two objects that differ in identity only
TransportErrors == {ErrorObject(1), ErrorObject(2)}

QuotedHexBody == Str(<<DQ, "0", "x", "d", "e", "a", "d", "b", "e", "e", "f", DQ>>)

\* the document key shadows a Secret Store node answers with, and its text
ShadowObjects ==
    { Obj(<< Prop(<<"d", "e", "c", "r", "y", "p", "t", "e", "d", "_", "s", "e", "c", "r", "e", "t">>, Str(<<"0", "x", "1">>)),
             Prop(<<"c", "o", "m", "m", "o", "n", "_", "p", "o", "i", "n", "t">>, Str(<<"0", "x", "2">>)),
             Prop(<<"d", "e", "c", "r", "y", "p", "t", "_", "s", "h", "a", "d", "o", "w", "s">>, Arr(sh)) >>) :
        sh \in { <<Str(<<"0", "x", "3">>)>>, <<Str(<<"0", "x", "3">>), Str(<<"0", "x", "4">>)>>, <<Str(<<"0", "x", "4">>), Str(<<"0", "x", "3">>)>> } }

Bodies ==
    {Str(w) : w \in StringsUpTo({DQ, LF, "a"}, MaxBodyLen)}
        \cup {QuotedHexBody, Str(<<"0", "x", "d", "e", "a", "d", "b", "e", "e", "f">>)} \cup {JSONstringify(o) : o \in ShadowObjects}

FailedResponses ==
    { Response(201, <<"C", "r", "e", "a", "t", "e", "d">>), Response(204, <<"N", "o", " ", "C", "o", "n", "t", "e", "n", "t">>),
      Response(500, <<"I", "n", "t", "e", "r", "n", "a", "l", " ", "S", "e", "r", "v", "e", "r", " ", "E", "r", "r", "o", "r">>) }

\* what the HTTP client may call back with: <<error, response, body>>
HttpOutcomes ==
    {<<e, Undefined, Undefined>> : e \in TransportErrors}
        \cup {<<ErrorObject(1), Response(HTTP_OK, <<"O", "K">>), QuotedHexBody>>,
              <<ErrorObject(2), Response(500, <<"I", "n", "t", "e", "r", "n", "a", "l", " ", "S", "e", "r", "v", "e", "r", " ", "E", "r", "r", "o", "r">>), Str(<< >>)>>}
        \cup {<<Null, r, b>> : r \in FailedResponses, b \in {Str(<< >>), QuotedHexBody}}
        \cup {<<Null, Response(HTTP_OK, <<"O", "K">>), b>> : b \in Bodies}

CallbackArgs(error, response, body, sync) ==
    [error |-> error, response |-> response, body |-> body, sync |-> sync]

(* the functions of secretstore/session.js *)

\* faulty variant of generateServerKey: the signed server key ID keeps its
\* 0x prefix
generateServerKey_prefixKept(url, serverKeyID, signedServerKeyID, threshold, verbose) ==
    LET options ==
            Obj(<< Prop(<<"u", "r", "l">>, Str(ToStringChars(url) \o <<"/", "s", "h", "a", "d", "o", "w", "/">> \o remove0x(serverKeyID) \o <<"/">>
                                       \o ToStringChars(signedServerKeyID) \o <<"/">> \o ToStringChars(threshold))),
                   Prop(<<"m", "e", "t", "h", "o", "d">>, Str(<<"P", "O", "S", "T">>)) >>)
    IN Issue("secretstore/session.js", "generateServerKey",
             [url |-> url, serverKeyID |-> serverKeyID, signedServerKeyID |-> signedServerKeyID, threshold |-> threshold],
             verbose, << options >>)

\* secretstore/session.js: generateServerKey(url, serverKeyID, signedServerKeyID, threshold, verbose=true) is called
generateServerKey(url, serverKeyID, signedServerKeyID, threshold, verbose) ==
    LET options ==
            Obj(<< Prop(<<"u", "r", "l">>, Str(ToStringChars(url) \o <<"/", "s", "h", "a", "d", "o", "w", "/">> \o remove0x(serverKeyID) \o <<"/">>
                                       \o remove0x(signedServerKeyID) \o <<"/">> \o ToStringChars(threshold))),
                   Prop(<<"m", "e", "t", "h", "o", "d">>, Str(<<"P", "O", "S", "T">>)) >>)
    IN Issue("secretstore/session.js", "generateServerKey",
             [url |-> url, serverKeyID |-> serverKeyID, signedServerKeyID |-> signedServerKeyID, threshold |-> threshold],
             verbose, << options >>)

\* faulty variant of the callback of generateServerKey: every status code
\* below 300 counts as success
generateServerKey_response_any2xx(i, error, response, body, sync) ==
    LET verbose == Verbose(calls[i])
        options == calls[i].requests[1]
        callback ==
            IF Truthy(error)
            THEN IF Truthy(verbose)
                 THEN Throw(<< >>, ReferenceError("e"))
                 ELSE Reject(<< >>, error)
            ELSE IF response.t \in {"undefined", "null"}
            THEN Throw(<< >>, TypeError("Cannot read property 'statusCode' of undefined"))
            ELSE IF response.statusCode.n >= 300
            THEN Reject(IF Truthy(verbose) THEN logFailedResponse(response, body, options) ELSE << >>,
                        SecretStoreSessionError(<<"R", "e", "q", "u", "e", "s", "t", " ", "f", "a", "i", "l", "e", "d", ".">>, response))
            ELSE LET r == removeEnclosingDQuotes(body)
                 IN IF r.ok THEN Resolve(<< >>, r.val) ELSE Throw(<< >>, r.thrown)
    IN /\ i \in Awaiting("secretstore/session.js", "generateServerKey")
       /\ Receive(i, callback, CallbackArgs(error, response, body, sync), sync)

\* secretstore/session.js: request invokes the callback of generateServerKey
generateServerKey_response(i, error, response, body, sync) ==
    LET verbose == Verbose(calls[i])
        options == calls[i].requests[1]
        callback ==
            IF Truthy(error)
            THEN IF Truthy(verbose)
                 THEN Throw(<< >>, ReferenceError("e"))
                 ELSE Reject(<< >>, error)
            ELSE IF response.t \in {"undefined", "null"}
            THEN Throw(<< >>, TypeError("Cannot read property 'statusCode' of undefined"))
            ELSE IF LooseNotEquals(response.statusCode, Num(HTTP_OK))
            THEN Reject(IF Truthy(verbose) THEN logFailedResponse(response, body, options) ELSE << >>,
                        SecretStoreSessionError(<<"R", "e", "q", "u", "e", "s", "t", " ", "f", "a", "i", "l", "e", "d", ".">>, response))
            ELSE LET r == removeEnclosingDQuotes(body)
                 IN IF r.ok THEN Resolve(<< >>, r.val) ELSE Throw(<< >>, r.thrown)
    IN /\ i \in Awaiting("secretstore/session.js", "generateServerKey")
       /\ Receive(i, callback, CallbackArgs(error, response, body, sync), sync)

\* secretstore/session.js: generateServerAndDocumentKey(url, serverKeyID, signedServerKeyID, threshold, verbose=true) is called
generateServerAndDocumentKey(url, serverKeyID, signedServerKeyID, threshold, verbose) ==
    LET options ==
            Obj(<< Prop(<<"u", "r", "l">>, Str(ToStringChars(url) \o <<"/">> \o remove0x(serverKeyID) \o <<"/">>
                                       \o remove0x(signedServerKeyID) \o <<"/">> \o ToStringChars(threshold))),
                   Prop(<<"m", "e", "t", "h", "o", "d">>, Str(<<"P", "O", "S", "T">>)) >>)
    IN Issue("secretstore/session.js", "generateServerAndDocumentKey",
             [url |-> url, serverKeyID |-> serverKeyID, signedServerKeyID |-> signedServerKeyID, threshold |-> threshold],
             verbose, << options >>)

\* secretstore/session.js: request invokes the callback of generateServerAndDocumentKey
generateServerAndDocumentKey_response(i, error, response, body, sync) ==
    LET verbose == Verbose(calls[i])
        options == calls[i].requests[1]
        callback ==
            IF Truthy(error)
            THEN IF Truthy(verbose)
                 THEN Throw(<< >>, ReferenceError("e"))
                 ELSE Reject(<< >>, error)
            ELSE IF response.t \in {"undefined", "null"}
            THEN Throw(<< >>, TypeError("Cannot read property 'statusCode' of undefined"))
            ELSE IF LooseNotEquals(response.statusCode, Num(HTTP_OK))
            THEN Reject(IF Truthy(verbose) THEN logFailedResponse(response, body, options) ELSE << >>,
                        SecretStoreSessionError(<<"R", "e", "q", "u", "e", "s", "t", " ", "f", "a", "i", "l", "e", "d", ".">>, response))
            ELSE LET r == removeEnclosingDQuotes(body)
                 IN IF r.ok THEN Resolve(<< >>, r.val) ELSE Throw(<< >>, r.thrown)
    IN /\ i \in Awaiting("secretstore/session.js", "generateServerAndDocumentKey")
       /\ Receive(i, callback, CallbackArgs(error, response, body, sync), sync)

\* secretstore/session.js: shadowRetrieveDocumentKey(url, serverKeyID, signedServerKeyID, verbose=true) is called
shadowRetrieveDocumentKey(url, serverKeyID, signedServerKeyID, verbose) ==
    LET options ==
            Obj(<< Prop(<<"u", "r", "l">>, Str(ToStringChars(url) \o <<"/", "s", "h", "a", "d", "o", "w", "/">> \o remove0x(serverKeyID) \o <<"/">>
                                       \o remove0x(signedServerKeyID))),
                   Prop(<<"m", "e", "t", "h", "o", "d">>, Str(<<"G", "E", "T">>)) >>)
    IN Issue("secretstore/session.js", "shadowRetrieveDocumentKey",
             [url |-> url, serverKeyID |-> serverKeyID, signedServerKeyID |-> signedServerKeyID],
             verbose, << options >>)

\* faulty variant of the callback of shadowRetrieveDocumentKey: the body is
\* unwrapped like a quoted string instead of parsed
shadowRetrieveDocumentKey_response_unwrap(i, error, response, body, sync) ==
    LET verbose == Verbose(calls[i])
        options == calls[i].requests[1]
        callback ==
            IF Truthy(error)
            THEN IF Truthy(verbose)
                 THEN Throw(<< >>, ReferenceError("e"))
                 ELSE Reject(<< >>, error)
            ELSE IF response.t \in {"undefined", "null"}
            THEN Throw(<< >>, TypeError("Cannot read property 'statusCode' of undefined"))
            ELSE IF LooseNotEquals(response.statusCode, Num(HTTP_OK))
            THEN Reject(IF Truthy(verbose) THEN logFailedResponse(response, body, options) ELSE << >>,
                        SecretStoreSessionError(<<"R", "e", "q", "u", "e", "s", "t", " ", "f", "a", "i", "l", "e", "d", ".">>, response))
            ELSE LET r == removeEnclosingDQuotes(body)
                 IN IF r.ok THEN Resolve(<< >>, r.val) ELSE Throw(<< >>, r.thrown)
    IN /\ i \in Awaiting("secretstore/session.js", "shadowRetrieveDocumentKey")
       /\ Receive(i, callback, CallbackArgs(error, response, body, sync), sync)

\* secretstore/session.js: request invokes the callback of shadowRetrieveDocumentKey
shadowRetrieveDocumentKey_response(i, error, response, body, sync) ==
    LET verbose == Verbose(calls[i])
        options == calls[i].requests[1]
        callback ==
            IF Truthy(error)
            THEN IF Truthy(verbose)
                 THEN Throw(<< >>, ReferenceError("e"))
                 ELSE Reject(<< >>, error)
            ELSE IF response.t \in {"undefined", "null"}
            THEN Throw(<< >>, TypeError("Cannot read property 'statusCode' of undefined"))
            ELSE IF LooseNotEquals(response.statusCode, Num(HTTP_OK))
            THEN Reject(IF Truthy(verbose) THEN logFailedResponse(response, body, options) ELSE << >>,
                        SecretStoreSessionError(<<"R", "e", "q", "u", "e", "s", "t", " ", "f", "a", "i", "l", "e", "d", ".">>, response))
            ELSE LET r == JSONparse(body)
                 IN IF r.ok THEN Resolve(<< >>, r.val) ELSE Throw(<< >>, r.thrown)
    IN /\ i \in Awaiting("secretstore/session.js", "shadowRetrieveDocumentKey")
       /\ Receive(i, callback, CallbackArgs(error, response, body, sync), sync)

\* secretstore/session.js: retrieveDocumentKey(url, serverKeyID, signedServerKeyID, verbose=true) is called
retrieveDocumentKey(url, serverKeyID, signedServerKeyID, verbose) ==
    LET options ==
            Obj(<< Prop(<<"u", "r", "l">>, Str(ToStringChars(url) \o <<"/">> \o remove0x(serverKeyID) \o <<"/">>
                                       \o remove0x(signedServerKeyID))),
                   Prop(<<"m", "e", "t", "h", "o", "d">>, Str(<<"G", "E", "T">>)) >>)
    IN Issue("secretstore/session.js", "retrieveDocumentKey",
             [url |-> url, serverKeyID |-> serverKeyID, signedServerKeyID |-> signedServerKeyID],
             verbose, << options >>)

\* secretstore/session.js: request invokes the callback of retrieveDocumentKey
retrieveDocumentKey_response(i, error, response, body, sync) ==
    LET verbose == Verbose(calls[i])
        options == calls[i].requests[1]
        callback ==
            IF Truthy(error)
            THEN IF Truthy(verbose)
                 THEN Throw(<< >>, ReferenceError("e"))
                 ELSE Reject(<< >>, error)
            ELSE IF response.t \in {"undefined", "null"}
            THEN Throw(<< >>, TypeError("Cannot read property 'statusCode' of undefined"))
            ELSE IF LooseNotEquals(response.statusCode, Num(HTTP_OK))
            THEN Reject(IF Truthy(verbose) THEN logFailedResponse(response, body, options) ELSE << >>,
                        SecretStoreSessionError(<<"R", "e", "q", "u", "e", "s", "t", " ", "f", "a", "i", "l", "e", "d", ".">>, response))
            ELSE LET r == removeEnclosingDQuotes(body)
                 IN IF r.ok THEN Resolve(<< >>, r.val) ELSE Throw(<< >>, r.thrown)
    IN /\ i \in Awaiting("secretstore/session.js", "retrieveDocumentKey")
       /\ Receive(i, callback, CallbackArgs(error, response, body, sync), sync)

\* secretstore/session.js: signSchnorr(url, serverKeyID, signedServerKeyID, messageHash, verbose=true) is called
signSchnorr(url, serverKeyID, signedServerKeyID, messageHash, verbose) ==
    LET options ==
            Obj(<< Prop(<<"u", "r", "l">>, Str(ToStringChars(url) \o <<"/", "s", "c", "h", "n", "o", "r", "r", "/">> \o remove0x(serverKeyID) \o <<"/">>
                                       \o remove0x(signedServerKeyID) \o <<"/">> \o ToStringChars(messageHash))),
                   Prop(<<"m", "e", "t", "h", "o", "d">>, Str(<<"G", "E", "T">>)) >>)
    IN Issue("secretstore/session.js", "signSchnorr",
             [url |-> url, serverKeyID |-> serverKeyID, signedServerKeyID |-> signedServerKeyID, messageHash |-> messageHash],
             verbose, << options >>)

\* secretstore/session.js: request invokes the callback of signSchnorr
signSchnorr_response(i, error, response, body, sync) ==
    LET verbose == Verbose(calls[i])
        options == calls[i].requests[1]
        callback ==
            IF Truthy(error)
            THEN IF Truthy(verbose)
                 THEN Throw(<< >>, ReferenceError("e"))
                 ELSE Reject(<< >>, error)
            ELSE IF response.t \in {"undefined", "null"}
            THEN Throw(<< >>, TypeError("Cannot read property 'statusCode' of undefined"))
            ELSE IF LooseNotEquals(response.statusCode, Num(HTTP_OK))
            THEN Reject(IF Truthy(verbose) THEN logFailedResponse(response, body, options) ELSE << >>,
                        SecretStoreSessionError(<<"R", "e", "q", "u", "e", "s", "t", " ", "f", "a", "i", "l", "e", "d", ".">>, response))
            ELSE LET r == removeEnclosingDQuotes(body)
                 IN IF r.ok THEN Resolve(<< >>, r.val) ELSE Throw(<< >>, r.thrown)
    IN /\ i \in Awaiting("secretstore/session.js", "signSchnorr")
       /\ Receive(i, callback, CallbackArgs(error, response, body, sync), sync)

\* secretstore/session.js: signEcdsa(url, serverKeyID, signedServerKeyID, messageHash, verbose=true) is called
signEcdsa(url, serverKeyID, signedServerKeyID, messageHash, verbose) ==
    LET options ==
            Obj(<< Prop(<<"u", "r", "l">>, Str(ToStringChars(url) \o <<"/", "e", "c", "d", "s", "a", "/">> \o remove0x(serverKeyID) \o <<"/">>
                                       \o remove0x(signedServerKeyID) \o <<"/">> \o ToStringChars(messageHash))),
                   Prop(<<"m", "e", "t", "h", "o", "d">>, Str(<<"G", "E", "T">>)) >>)
    IN Issue("secretstore/session.js", "signEcdsa",
             [url |-> url, serverKeyID |-> serverKeyID, signedServerKeyID |-> signedServerKeyID, messageHash |-> messageHash],
             verbose, << options >>)

\* secretstore/session.js: request invokes the callback of signEcdsa
signEcdsa_response(i, error, response, body, sync) ==
    LET verbose == Verbose(calls[i])
        options == calls[i].requests[1]
        callback ==
            IF Truthy(error)
            THEN IF Truthy(verbose)
                 THEN Throw(<< >>, ReferenceError("e"))
                 ELSE Reject(<< >>, error)
            ELSE IF response.t \in {"undefined", "null"}
            THEN Throw(<< >>, TypeError("Cannot read property 'statusCode' of undefined"))
            ELSE IF LooseNotEquals(response.statusCode, Num(HTTP_OK))
            THEN Reject(IF Truthy(verbose) THEN logFailedResponse(response, body, options) ELSE << >>,
                        SecretStoreSessionError(<<"R", "e", "q", "u", "e", "s", "t", " ", "f", "a", "i", "l", "e", "d", ".">>, response))
            ELSE LET r == removeEnclosingDQuotes(body)
                 IN IF r.ok THEN Resolve(<< >>, r.val) ELSE Throw(<< >>, r.thrown)
    IN /\ i \in Awaiting("secretstore/session.js", "signEcdsa")
       /\ Receive(i, callback, CallbackArgs(error, response, body, sync), sync)

\* secretstore/session.js: storeDocumentKey(url, serverKeyID, signedServerKeyID, commonPoint, encryptedPoint, verbose=true) is called
storeDocumentKey(url, serverKeyID, signedServerKeyID, commonPoint, encryptedPoint, verbose) ==
    LET options ==
            Obj(<< Prop(<<"u", "r", "l">>, Str(ToStringChars(url) \o <<"/", "s", "h", "a", "d", "o", "w", "/">> \o remove0x(serverKeyID) \o <<"/">>
                                       \o remove0x(signedServerKeyID) \o <<"/">> \o remove0x(commonPoint)
                                       \o <<"/">> \o remove0x(encryptedPoint))),
                   Prop(<<"m", "e", "t", "h", "o", "d">>, Str(<<"P", "O", "S", "T">>)) >>)
    IN Issue("secretstore/session.js", "storeDocumentKey",
             [url |-> url, serverKeyID |-> serverKeyID, signedServerKeyID |-> signedServerKeyID, commonPoint |-> commonPoint, encryptedPoint |-> encryptedPoint],
             verbose, << options >>)

\* faulty variant of the callback of storeDocumentKey: the body is
\* unwrapped like the answers of the other endpoints
storeDocumentKey_response_unwrap(i, error, response, body, sync) ==
    LET verbose == Verbose(calls[i])
        options == calls[i].requests[1]
        callback ==
            IF Truthy(error)
            THEN IF Truthy(verbose)
                 THEN Throw(<< >>, ReferenceError("e"))
                 ELSE Reject(<< >>, error)
            ELSE IF response.t \in {"undefined", "null"}
            THEN Throw(<< >>, TypeError("Cannot read property 'statusCode' of undefined"))
            ELSE IF LooseNotEquals(response.statusCode, Num(HTTP_OK))
            THEN Reject(IF Truthy(verbose) THEN logFailedResponse(response, body, options) ELSE << >>,
                        SecretStoreSessionError(<<"R", "e", "q", "u", "e", "s", "t", " ", "f", "a", "i", "l", "e", "d", ".">>, response))
            ELSE Resolve(<< >>, removeEnclosingDQuotes(body).val)
    IN /\ i \in Awaiting("secretstore/session.js", "storeDocumentKey")
       /\ Receive(i, callback, CallbackArgs(error, response, body, sync), sync)

\* secretstore/session.js: request invokes the callback of storeDocumentKey
storeDocumentKey_response(i, error, response, body, sync) ==
    LET verbose == Verbose(calls[i])
        options == calls[i].requests[1]
        callback ==
            IF Truthy(error)
            THEN IF Truthy(verbose)
                 THEN Throw(<< >>, ReferenceError("e"))
                 ELSE Reject(<< >>, error)
            ELSE IF response.t \in {"undefined", "null"}
            THEN Throw(<< >>, TypeError("Cannot read property 'statusCode' of undefined"))
            ELSE IF LooseNotEquals(response.statusCode, Num(HTTP_OK))
            THEN Reject(IF Truthy(verbose) THEN logFailedResponse(response, body, options) ELSE << >>,
                        SecretStoreSessionError(<<"R", "e", "q", "u", "e", "s", "t", " ", "f", "a", "i", "l", "e", "d", ".">>, response))
            ELSE Resolve(<< >>, body)
    IN /\ i \in Awaiting("secretstore/session.js", "storeDocumentKey")
       /\ Receive(i, callback, CallbackArgs(error, response, body, sync), sync)

\* secretstore/session.js: nodesSetChange(url, nodeIDsNewSet, signatureOldSet, signatureNewSet, verbose=true) is called
nodesSetChange(url, nodeIDsNewSet, signatureOldSet, signatureNewSet, verbose) ==
    LET options ==
            Obj(<< Prop(<<"u", "r", "l">>, Str(ToStringChars(url) \o <<"/", "a", "d", "m", "i", "n", "/", "s", "e", "r", "v", "e", "r", "s", "_", "s", "e", "t", "_", "c", "h", "a", "n", "g", "e">> \o <<"/">> \o remove0x(signatureOldSet)
                                       \o <<"/">> \o remove0x(signatureNewSet))),
                   Prop(<<"m", "e", "t", "h", "o", "d">>, Str(<<"P", "O", "S", "T">>)),
                   Prop(<<"b", "o", "d", "y">>, JSONstringify(nodeIDsNewSet)) >>)
    IN Issue("secretstore/session.js", "nodesSetChange",
             [url |-> url, nodeIDsNewSet |-> nodeIDsNewSet, signatureOldSet |-> signatureOldSet, signatureNewSet |-> signatureNewSet],
             verbose, << options >>)

\* secretstore/session.js: request invokes the callback of nodesSetChange
nodesSetChange_response(i, error, response, body, sync) ==
    LET verbose == Verbose(calls[i])
        options == calls[i].requests[1]
        callback ==
            IF Truthy(error)
            THEN IF Truthy(verbose)
                 THEN Throw(<< >>, ReferenceError("e"))
                 ELSE Reject(<< >>, error)
            ELSE IF response.t \in {"undefined", "null"}
            THEN Throw(<< >>, TypeError("Cannot read property 'statusCode' of undefined"))
            ELSE IF LooseNotEquals(response.statusCode, Num(HTTP_OK))
            THEN Reject(IF Truthy(verbose) THEN logFailedResponse(response, body, options) ELSE << >>,
                        SecretStoreSessionError(<<"R", "e", "q", "u", "e", "s", "t", " ", "f", "a", "i", "l", "e", "d", ".">>, response))
            ELSE LET r == removeEnclosingDQuotes(body)
                 IN IF r.ok THEN Resolve(<< >>, r.val) ELSE Throw(<< >>, r.thrown)
    IN /\ i \in Awaiting("secretstore/session.js", "nodesSetChange")
       /\ Receive(i, callback, CallbackArgs(error, response, body, sync), sync)

(* the HTTP functions of secretstore.js *)

\* secretstore.js: generateServerKey(url, serverKeyID, signedServerKeyID, threshold, verbose=true) is called
ss_generateServerKey(url, serverKeyID, signedServerKeyID, threshold, verbose) ==
    LET options ==
            Obj(<< Prop(<<"u", "r", "l">>, Str(ToStringChars(url) \o <<"/", "s", "h", "a", "d", "o", "w", "/">> \o remove0x(serverKeyID) \o <<"/">>
                                       \o remove0x(signedServerKeyID) \o <<"/">> \o ToStringChars(threshold))),
                   Prop(<<"m", "e", "t", "h", "o", "d">>, Str(<<"P", "O", "S", "T">>)) >>)
    IN Issue("secretstore.js", "generateServerKey",
             [url |-> url, serverKeyID |-> serverKeyID, signedServerKeyID |-> signedServerKeyID, threshold |-> threshold],
             verbose, << options >>)

\* secretstore.js: request invokes the callback of generateServerKey
ss_generateServerKey_response(i, error, response, body, sync) ==
    LET verbose == Verbose(calls[i])
        options == calls[i].requests[1]
        callback ==
            IF Truthy(error)
            THEN IF Truthy(verbose)
                 THEN Throw(<< >>, ReferenceError("e"))
                 ELSE Reject(<< >>, error)
            ELSE IF response.t \in {"undefined", "null"}
            THEN Throw(<< >>, TypeError("Cannot read property 'statusCode' of undefined"))
            ELSE IF LooseNotEquals(response.statusCode, Num(HTTP_OK))
            THEN Reject(IF Truthy(verbose) THEN logFailedResponse(response, body, options) ELSE << >>,
                        SSRequestError(<<"R", "e", "q", "u", "e", "s", "t", " ", "f", "a", "i", "l", "e", "d", ".">>, response))
            ELSE LET r == removeEnclosingDQuotes(body)
                 IN IF r.ok THEN Resolve(<< >>, r.val) ELSE Throw(<< >>, r.thrown)
    IN /\ i \in Awaiting("secretstore.js", "generateServerKey")
       /\ Receive(i, callback, CallbackArgs(error, response, body, sync), sync)

\* secretstore.js: generateServerAndDocumentKey(url, serverKeyID, signedServerKeyID, threshold, verbose=true) is called
ss_generateServerAndDocumentKey(url, serverKeyID, signedServerKeyID, threshold, verbose) ==
    LET options ==
            Obj(<< Prop(<<"u", "r", "l">>, Str(ToStringChars(url) \o <<"/">> \o remove0x(serverKeyID) \o <<"/">>
                                       \o remove0x(signedServerKeyID) \o <<"/">> \o ToStringChars(threshold))),
                   Prop(<<"m", "e", "t", "h", "o", "d">>, Str(<<"P", "O", "S", "T">>)) >>)
    IN Issue("secretstore.js", "generateServerAndDocumentKey",
             [url |-> url, serverKeyID |-> serverKeyID, signedServerKeyID |-> signedServerKeyID, threshold |-> threshold],
             verbose, << options >>)

\* secretstore.js: request invokes the callback of generateServerAndDocumentKey
ss_generateServerAndDocumentKey_response(i, error, response, body, sync) ==
    LET verbose == Verbose(calls[i])
        options == calls[i].requests[1]
        callback ==
            IF Truthy(error)
            THEN IF Truthy(verbose)
                 THEN Throw(<< >>, ReferenceError("e"))
                 ELSE Reject(<< >>, error)
            ELSE IF response.t \in {"undefined", "null"}
            THEN Throw(<< >>, TypeError("Cannot read property 'statusCode' of undefined"))
            ELSE IF LooseNotEquals(response.statusCode, Num(HTTP_OK))
            THEN Reject(IF Truthy(verbose) THEN logFailedResponse(response, body, options) ELSE << >>,
                        SSRequestError(<<"R", "e", "q", "u", "e", "s", "t", " ", "f", "a", "i", "l", "e", "d", ".">>, response))
            ELSE LET r == removeEnclosingDQuotes(body)
                 IN IF r.ok THEN Resolve(<< >>, r.val) ELSE Throw(<< >>, r.thrown)
    IN /\ i \in Awaiting("secretstore.js", "generateServerAndDocumentKey")
       /\ Receive(i, callback, CallbackArgs(error, response, body, sync), sync)

\* secretstore.js: shadowRetrieveDocumentKey(url, serverKeyID, signedServerKeyID, verbose=true) is called
ss_shadowRetrieveDocumentKey(url, serverKeyID, signedServerKeyID, verbose) ==
    LET options ==
            Obj(<< Prop(<<"u", "r", "l">>, Str(ToStringChars(url) \o <<"/", "s", "h", "a", "d", "o", "w", "/">> \o remove0x(serverKeyID) \o <<"/">>
                                       \o remove0x(signedServerKeyID))),
                   Prop(<<"m", "e", "t", "h", "o", "d">>, Str(<<"G", "E", "T">>)) >>)
    IN Issue("secretstore.js", "shadowRetrieveDocumentKey",
             [url |-> url, serverKeyID |-> serverKeyID, signedServerKeyID |-> signedServerKeyID],
             verbose, << options >>)

\* secretstore.js: request invokes the callback of shadowRetrieveDocumentKey
ss_shadowRetrieveDocumentKey_response(i, error, response, body, sync) ==
    LET verbose == Verbose(calls[i])
        options == calls[i].requests[1]
        callback ==
            IF Truthy(error)
            THEN IF Truthy(verbose)
                 THEN Throw(<< >>, ReferenceError("e"))
                 ELSE Reject(<< >>, error)
            ELSE IF response.t \in {"undefined", "null"}
            THEN Throw(<< >>, TypeError("Cannot read property 'statusCode' of undefined"))
            ELSE IF LooseNotEquals(response.statusCode, Num(HTTP_OK))
            THEN Reject(IF Truthy(verbose) THEN logFailedResponse(response, body, options) ELSE << >>,
                        SSRequestError(<<"R", "e", "q", "u", "e", "s", "t", " ", "f", "a", "i", "l", "e", "d", ".">>, response))
            ELSE LET r == JSONparse(body)
                 IN IF r.ok THEN Resolve(<< >>, r.val) ELSE Throw(<< >>, r.thrown)
    IN /\ i \in Awaiting("secretstore.js", "shadowRetrieveDocumentKey")
       /\ Receive(i, callback, CallbackArgs(error, response, body, sync), sync)

\* secretstore.js: retrieveDocumentKey(url, serverKeyID, signedServerKeyID, verbose=true) is called
ss_retrieveDocumentKey(url, serverKeyID, signedServerKeyID, verbose) ==
    LET options ==
            Obj(<< Prop(<<"u", "r", "l">>, Str(ToStringChars(url) \o <<"/">> \o remove0x(serverKeyID) \o <<"/">>
                                       \o remove0x(signedServerKeyID))),
                   Prop(<<"m", "e", "t", "h", "o", "d">>, Str(<<"G", "E", "T">>)) >>)
    IN Issue("secretstore.js", "retrieveDocumentKey",
             [url |-> url, serverKeyID |-> serverKeyID, signedServerKeyID |-> signedServerKeyID],
             verbose, << options >>)

\* secretstore.js: request invokes the callback of retrieveDocumentKey
ss_retrieveDocumentKey_response(i, error, response, body, sync) ==
    LET verbose == Verbose(calls[i])
        options == calls[i].requests[1]
        callback ==
            IF Truthy(error)
            THEN IF Truthy(verbose)
                 THEN Throw(<< >>, ReferenceError("e"))
                 ELSE Reject(<< >>, error)
            ELSE IF response.t \in {"undefined", "null"}
            THEN Throw(<< >>, TypeError("Cannot read property 'statusCode' of undefined"))
            ELSE IF LooseNotEquals(response.statusCode, Num(HTTP_OK))
            THEN Reject(IF Truthy(verbose) THEN logFailedResponse(response, body, options) ELSE << >>,
                        SSRequestError(<<"R", "e", "q", "u", "e", "s", "t", " ", "f", "a", "i", "l", "e", "d", ".">>, response))
            ELSE LET r == removeEnclosingDQuotes(body)
                 IN IF r.ok THEN Resolve(<< >>, r.val) ELSE Throw(<< >>, r.thrown)
    IN /\ i \in Awaiting("secretstore.js", "retrieveDocumentKey")
       /\ Receive(i, callback, CallbackArgs(error, response, body, sync), sync)

\* secretstore.js: signSchnorr(url, serverKeyID, signedServerKeyID, messageHash, verbose=true) is called
ss_signSchnorr(url, serverKeyID, signedServerKeyID, messageHash, verbose) ==
    LET options ==
            Obj(<< Prop(<<"u", "r", "l">>, Str(ToStringChars(url) \o <<"/", "s", "c", "h", "n", "o", "r", "r", "/">> \o remove0x(serverKeyID) \o <<"/">>
                                       \o remove0x(signedServerKeyID) \o <<"/">> \o ToStringChars(messageHash))),
                   Prop(<<"m", "e", "t", "h", "o", "d">>, Str(<<"G", "E", "T">>)) >>)
    IN Issue("secretstore.js", "signSchnorr",
             [url |-> url, serverKeyID |-> serverKeyID, signedServerKeyID |-> signedServerKeyID, messageHash |-> messageHash],
             verbose, << options >>)

\* secretstore.js: request invokes the callback of signSchnorr
ss_signSchnorr_response(i, error, response, body, sync) ==
    LET verbose == Verbose(calls[i])
        options == calls[i].requests[1]
        callback ==
            IF Truthy(error)
            THEN IF Truthy(verbose)
                 THEN Throw(<< >>, ReferenceError("e"))
                 ELSE Reject(<< >>, error)
            ELSE IF response.t \in {"undefined", "null"}
            THEN Throw(<< >>, TypeError("Cannot read property 'statusCode' of undefined"))
            ELSE IF LooseNotEquals(response.statusCode, Num(HTTP_OK))
            THEN Reject(IF Truthy(verbose) THEN logFailedResponse(response, body, options) ELSE << >>,
                        SSRequestError(<<"R", "e", "q", "u", "e", "s", "t", " ", "f", "a", "i", "l", "e", "d", ".">>, response))
            ELSE LET r == removeEnclosingDQuotes(body)
                 IN IF r.ok THEN Resolve(<< >>, r.val) ELSE Throw(<< >>, r.thrown)
    IN /\ i \in Awaiting("secretstore.js", "signSchnorr")
       /\ Receive(i, callback, CallbackArgs(error, response, body, sync), sync)

\* secretstore.js: signEcdsa(url, serverKeyID, signedServerKeyID, messageHash, verbose=true) is called
ss_signEcdsa(url, serverKeyID, signedServerKeyID, messageHash, verbose) ==
    LET options ==
            Obj(<< Prop(<<"u", "r", "l">>, Str(ToStringChars(url) \o <<"/", "e", "c", "d", "s", "a", "/">> \o remove0x(serverKeyID) \o <<"/">>
                                       \o remove0x(signedServerKeyID) \o <<"/">> \o ToStringChars(messageHash))),
                   Prop(<<"m", "e", "t", "h", "o", "d">>, Str(<<"G", "E", "T">>)) >>)
    IN Issue("secretstore.js", "signEcdsa",
             [url |-> url, serverKeyID |-> serverKeyID, signedServerKeyID |-> signedServerKeyID, messageHash |-> messageHash],
             verbose, << options >>)

\* secretstore.js: request invokes the callback of signEcdsa
ss_signEcdsa_response(i, error, response, body, sync) ==
    LET verbose == Verbose(calls[i])
        options == calls[i].requests[1]
        callback ==
            IF Truthy(error)
            THEN IF Truthy(verbose)
                 THEN Throw(<< >>, ReferenceError("e"))
                 ELSE Reject(<< >>, error)
            ELSE IF response.t \in {"undefined", "null"}
            THEN Throw(<< >>, TypeError("Cannot read property 'statusCode' of undefined"))
            ELSE IF LooseNotEquals(response.statusCode, Num(HTTP_OK))
            THEN Reject(IF Truthy(verbose) THEN logFailedResponse(response, body, options) ELSE << >>,
                        SSRequestError(<<"R", "e", "q", "u", "e", "s", "t", " ", "f", "a", "i", "l", "e", "d", ".">>, response))
            ELSE LET r == removeEnclosingDQuotes(body)
                 IN IF r.ok THEN Resolve(<< >>, r.val) ELSE Throw(<< >>, r.thrown)
    IN /\ i \in Awaiting("secretstore.js", "signEcdsa")
       /\ Receive(i, callback, CallbackArgs(error, response, body, sync), sync)

\* secretstore.js: storeDocumentKey(url, serverKeyID, signedServerKeyID, commonPoint, encryptedPoint, verbose=true) is called
ss_storeDocumentKey(url, serverKeyID, signedServerKeyID, commonPoint, encryptedPoint, verbose) ==
    LET options ==
            Obj(<< Prop(<<"u", "r", "l">>, Str(ToStringChars(url) \o <<"/", "s", "h", "a", "d", "o", "w", "/">> \o remove0x(serverKeyID) \o <<"/">>
                                       \o remove0x(signedServerKeyID) \o <<"/">> \o remove0x(commonPoint)
                                       \o <<"/">> \o remove0x(encryptedPoint))),
                   Prop(<<"m", "e", "t", "h", "o", "d">>, Str(<<"P", "O", "S", "T">>)) >>)
    IN Issue("secretstore.js", "storeDocumentKey",
             [url |-> url, serverKeyID |-> serverKeyID, signedServerKeyID |-> signedServerKeyID, commonPoint |-> commonPoint, encryptedPoint |-> encryptedPoint],
             verbose, << options >>)

\* secretstore.js: request invokes the callback of storeDocumentKey
ss_storeDocumentKey_response(i, error, response, body, sync) ==
    LET verbose == Verbose(calls[i])
        options == calls[i].requests[1]
        callback ==
            IF Truthy(error)
            THEN IF Truthy(verbose)
                 THEN Throw(<< >>, ReferenceError("e"))
                 ELSE Reject(<< >>, error)
            ELSE IF response.t \in {"undefined", "null"}
            THEN Throw(<< >>, TypeError("Cannot read property 'statusCode' of undefined"))
            ELSE IF LooseNotEquals(response.statusCode, Num(HTTP_OK))
            THEN Reject(IF Truthy(verbose) THEN logFailedResponse(response, body, options) ELSE << >>,
                        SSRequestError(<<"R", "e", "q", "u", "e", "s", "t", " ", "f", "a", "i", "l", "e", "d", ".">>, response))
            ELSE Resolve(<< >>, body)
    IN /\ i \in Awaiting("secretstore.js", "storeDocumentKey")
       /\ Receive(i, callback, CallbackArgs(error, response, body, sync), sync)

\* secretstore.js: nodesSetChange(url, nodeIDsNewSet, signatureOldSet, signatureNewSet, verbose=true) is called
ss_nodesSetChange(url, nodeIDsNewSet, signatureOldSet, signatureNewSet, verbose) ==
    LET options ==
            Obj(<< Prop(<<"u", "r", "l">>, Str(ToStringChars(url) \o <<"/", "a", "d", "m", "i", "n", "/", "s", "e", "r", "v", "e", "r", "s", "_", "s", "e", "t", "_", "c", "h", "a", "n", "g", "e">> \o <<"/">> \o remove0x(signatureOldSet)
                                       \o <<"/">> \o remove0x(signatureNewSet))),
                   Prop(<<"m", "e", "t", "h", "o", "d">>, Str(<<"P", "O", "S", "T">>)),
                   Prop(<<"b", "o", "d", "y">>, JSONstringify(nodeIDsNewSet)) >>)
    IN Issue("secretstore.js", "nodesSetChange",
             [url |-> url, nodeIDsNewSet |-> nodeIDsNewSet, signatureOldSet |-> signatureOldSet, signatureNewSet |-> signatureNewSet],
             verbose, << options >>)

\* secretstore.js: request invokes the callback of nodesSetChange
ss_nodesSetChange_response(i, error, response, body, sync) ==
    LET verbose == Verbose(calls[i])
        options == calls[i].requests[1]
        callback ==
            IF Truthy(error)
            THEN IF Truthy(verbose)
                 THEN Throw(<< >>, ReferenceError("e"))
                 ELSE Reject(<< >>, error)
            ELSE IF response.t \in {"undefined", "null"}
            THEN Throw(<< >>, TypeError("Cannot read property 'statusCode' of undefined"))
            ELSE IF LooseNotEquals(response.statusCode, Num(HTTP_OK))
            THEN Reject(IF Truthy(verbose) THEN logFailedResponse(response, body, options) ELSE << >>,
                        SSRequestError(<<"R", "e", "q", "u", "e", "s", "t", " ", "f", "a", "i", "l", "e", "d", ".">>, response))
            ELSE LET r == removeEnclosingDQuotes(body)
                 IN IF r.ok THEN Resolve(<< >>, r.val) ELSE Throw(<< >>, r.thrown)
    IN /\ i \in Awaiting("secretstore.js", "nodesSetChange")
       /\ Receive(i, callback, CallbackArgs(error, response, body, sync), sync)

\* one call of an HTTP session function and the callback of its request
NextSession ==
    \/ \E url \in Urls, serverKeyID \in ServerKeyIDs, signedServerKeyID \in SignedServerKeyIDs, threshold \in Thresholds, verbose \in Verboses :
          calls = << >> /\ generateServerKey(url, serverKeyID, signedServerKeyID, threshold, verbose)
    \/ \E url \in Urls, serverKeyID \in ServerKeyIDs, signedServerKeyID \in SignedServerKeyIDs, threshold \in Thresholds, verbose \in Verboses :
          calls = << >> /\ generateServerAndDocumentKey(url, serverKeyID, signedServerKeyID, threshold, verbose)
    \/ \E url \in Urls, serverKeyID \in ServerKeyIDs, signedServerKeyID \in SignedServerKeyIDs, verbose \in Verboses :
          calls = << >> /\ shadowRetrieveDocumentKey(url, serverKeyID, signedServerKeyID, verbose)
    \/ \E url \in Urls, serverKeyID \in ServerKeyIDs, signedServerKeyID \in SignedServerKeyIDs, verbose \in Verboses :
          calls = << >> /\ retrieveDocumentKey(url, serverKeyID, signedServerKeyID, verbose)
    \/ \E url \in Urls, serverKeyID \in ServerKeyIDs, signedServerKeyID \in SignedServerKeyIDs, messageHash \in MessageHashes, verbose \in Verboses :
          calls = << >> /\ signSchnorr(url, serverKeyID, signedServerKeyID, messageHash, verbose)
    \/ \E url \in Urls, serverKeyID \in ServerKeyIDs, signedServerKeyID \in SignedServerKeyIDs, messageHash \in MessageHashes, verbose \in Verboses :
          calls = << >> /\ signEcdsa(url, serverKeyID, signedServerKeyID, messageHash, verbose)
    \/ \E url \in Urls, serverKeyID \in ServerKeyIDs, signedServerKeyID \in SignedServerKeyIDs, commonPoint \in CommonPoints, encryptedPoint \in EncryptedPoints, verbose \in Verboses :
          calls = << >> /\ storeDocumentKey(url, serverKeyID, signedServerKeyID, commonPoint, encryptedPoint, verbose)
    \/ \E url \in Urls, nodeIDsNewSet \in NodeIDLists, signatureOldSet \in SignaturesOldSet, signatureNewSet \in SignaturesNewSet, verbose \in Verboses :
          calls = << >> /\ nodesSetChange(url, nodeIDsNewSet, signatureOldSet, signatureNewSet, verbose)
    \/ \E url \in Urls, serverKeyID \in ServerKeyIDs, signedServerKeyID \in SignedServerKeyIDs, threshold \in Thresholds, verbose \in Verboses :
          calls = << >> /\ ss_generateServerKey(url, serverKeyID, signedServerKeyID, threshold, verbose)
    \/ \E url \in Urls, serverKeyID \in ServerKeyIDs, signedServerKeyID \in SignedServerKeyIDs, threshold \in Thresholds, verbose \in Verboses :
          calls = << >> /\ ss_generateServerAndDocumentKey(url, serverKeyID, signedServerKeyID, threshold, verbose)
    \/ \E url \in Urls, serverKeyID \in ServerKeyIDs, signedServerKeyID \in SignedServerKeyIDs, verbose \in Verboses :
          calls = << >> /\ ss_shadowRetrieveDocumentKey(url, serverKeyID, signedServerKeyID, verbose)
    \/ \E url \in Urls, serverKeyID \in ServerKeyIDs, signedServerKeyID \in SignedServerKeyIDs, verbose \in Verboses :
          calls = << >> /\ ss_retrieveDocumentKey(url, serverKeyID, signedServerKeyID, verbose)
    \/ \E url \in Urls, serverKeyID \in ServerKeyIDs, signedServerKeyID \in SignedServerKeyIDs, messageHash \in MessageHashes, verbose \in Verboses :
          calls = << >> /\ ss_signSchnorr(url, serverKeyID, signedServerKeyID, messageHash, verbose)
    \/ \E url \in Urls, serverKeyID \in ServerKeyIDs, signedServerKeyID \in SignedServerKeyIDs, messageHash \in MessageHashes, verbose \in Verboses :
          calls = << >> /\ ss_signEcdsa(url, serverKeyID, signedServerKeyID, messageHash, verbose)
    \/ \E url \in Urls, serverKeyID \in ServerKeyIDs, signedServerKeyID \in SignedServerKeyIDs, commonPoint \in CommonPoints, encryptedPoint \in EncryptedPoints, verbose \in Verboses :
          calls = << >> /\ ss_storeDocumentKey(url, serverKeyID, signedServerKeyID, commonPoint, encryptedPoint, verbose)
    \/ \E url \in Urls, nodeIDsNewSet \in NodeIDLists, signatureOldSet \in SignaturesOldSet, signatureNewSet \in SignaturesNewSet, verbose \in Verboses :
          calls = << >> /\ ss_nodesSetChange(url, nodeIDsNewSet, signatureOldSet, signatureNewSet, verbose)
    \/ \E i \in Awaiting("secretstore/session.js", "generateServerKey"), o \in HttpOutcomes, sync \in BOOLEAN :
          generateServerKey_response(i, o[1], o[2], o[3], sync)
    \/ \E i \in Awaiting("secretstore/session.js", "generateServerAndDocumentKey"), o \in HttpOutcomes, sync \in BOOLEAN :
          generateServerAndDocumentKey_response(i, o[1], o[2], o[3], sync)
    \/ \E i \in Awaiting("secretstore/session.js", "shadowRetrieveDocumentKey"), o \in HttpOutcomes, sync \in BOOLEAN :
          shadowRetrieveDocumentKey_response(i, o[1], o[2], o[3], sync)
    \/ \E i \in Awaiting("secretstore/session.js", "retrieveDocumentKey"), o \in HttpOutcomes, sync \in BOOLEAN :
          retrieveDocumentKey_response(i, o[1], o[2], o[3], sync)
    \/ \E i \in Awaiting("secretstore/session.js", "signSchnorr"), o \in HttpOutcomes, sync \in BOOLEAN :
          signSchnorr_response(i, o[1], o[2], o[3], sync)
    \/ \E i \in Awaiting("secretstore/session.js", "signEcdsa"), o \in HttpOutcomes, sync \in BOOLEAN :
          signEcdsa_response(i, o[1], o[2], o[3], sync)
    \/ \E i \in Awaiting("secretstore/session.js", "storeDocumentKey"), o \in HttpOutcomes, sync \in BOOLEAN :
          storeDocumentKey_response(i, o[1], o[2], o[3], sync)
    \/ \E i \in Awaiting("secretstore/session.js", "nodesSetChange"), o \in HttpOutcomes, sync \in BOOLEAN :
          nodesSetChange_response(i, o[1], o[2], o[3], sync)
    \/ \E i \in Awaiting("secretstore.js", "generateServerKey"), o \in HttpOutcomes, sync \in BOOLEAN :
          ss_generateServerKey_response(i, o[1], o[2], o[3], sync)
    \/ \E i \in Awaiting("secretstore.js", "generateServerAndDocumentKey"), o \in HttpOutcomes, sync \in BOOLEAN :
          ss_generateServerAndDocumentKey_response(i, o[1], o[2], o[3], sync)
    \/ \E i \in Awaiting("secretstore.js", "shadowRetrieveDocumentKey"), o \in HttpOutcomes, sync \in BOOLEAN :
          ss_shadowRetrieveDocumentKey_response(i, o[1], o[2], o[3], sync)
    \/ \E i \in Awaiting("secretstore.js", "retrieveDocumentKey"), o \in HttpOutcomes, sync \in BOOLEAN :
          ss_retrieveDocumentKey_response(i, o[1], o[2], o[3], sync)
    \/ \E i \in Awaiting("secretstore.js", "signSchnorr"), o \in HttpOutcomes, sync \in BOOLEAN :
          ss_signSchnorr_response(i, o[1], o[2], o[3], sync)
    \/ \E i \in Awaiting("secretstore.js", "signEcdsa"), o \in HttpOutcomes, sync \in BOOLEAN :
          ss_signEcdsa_response(i, o[1], o[2], o[3], sync)
    \/ \E i \in Awaiting("secretstore.js", "storeDocumentKey"), o \in HttpOutcomes, sync \in BOOLEAN :
          ss_storeDocumentKey_response(i, o[1], o[2], o[3], sync)
    \/ \E i \in Awaiting("secretstore.js", "nodesSetChange"), o \in HttpOutcomes, sync \in BOOLEAN :
          ss_nodesSetChange_response(i, o[1], o[2], o[3], sync)

SpecSession == Init /\ [][NextSession]_vars

(* ---------------------------- JSON-RPC inputs --------------------------- *)

Accounts == {Str(<<"0", "x", "a", "1">>)}
Passwords == {Str(<<"p", "w">>)}
Hashes == {Str(<<"0", "x", "a", "a">>), Str(<<"a", "a">>), Undefined}
HexValues == {Str(<<"0", "x", "c", "c">>), Str(<<"c", "c">>)}
HexLists == {Arr(<< >>), Arr(<<Str(<<"0", "x", "b", "1">>), Str(<<"0", "x", "c", "1">>)>>)}
Transactions ==
    { Obj(<< >>),
      Obj(<< Prop(<<"f", "r", "o", "m">>, Str(<<"0", "x", "a", "1">>)), Prop(<<"t", "o">>, Str(<<"0", "x", "b", "1">>)), Prop(<<"d", "a", "t", "a">>, Str(<<"0", "x", "0", "0">>)) >>),
      Str(<<"0", "x", "f", "8">>) }
GasPrices == {Undefined, Null, Str(<<"0", "x", "0">>), Str(<<"0", "x", "1">>)}

\* the error objects of a remote node
RpcErrorObjects ==
    { Obj(<< Prop(<<"c", "o", "d", "e">>, Num(code)), Prop(<<"m", "e", "s", "s", "a", "g", "e">>, Str(<<message>>)) >>) :
        code \in {-32000, -32601}, message \in {"x", "y"} }

\* the result of private_composeDeploymentTransaction in the tests
DeploymentResult ==
    Obj(<< Prop(<<"r", "e", "c", "e", "i", "p", "t">>, Obj(<< Prop(<<"c", "o", "n", "t", "r", "a", "c", "t", "A", "d", "d", "r", "e", "s", "s">>, Str(<<"0", "x", "C", "C">>)) >>)),
           Prop(<<"t", "r", "a", "n", "s", "a", "c", "t", "i", "o", "n">>, Str(<<"0", "x", "D", "E", "A", "D">>)) >>)
RpcResults == {Str(<<"0", "x", "5", "1">>), DeploymentResult, Arr(<<Str(<<"0", "x", "3">>)>>)}

\* the response envelopes: a result, an error, both, none, and error: null
RpcResponses ==
    {Obj(<< Prop(<<"r", "e", "s", "u", "l", "t">>, v) >>) : v \in RpcResults}
        \cup {Obj(<< Prop(<<"e", "r", "r", "o", "r">>, x) >>) : x \in RpcErrorObjects}
        \cup {Obj(<< Prop(<<"e", "r", "r", "o", "r">>, x), Prop(<<"r", "e", "s", "u", "l", "t">>, v) >>) : x \in RpcErrorObjects, v \in RpcResults}
        \cup {Obj(<< >>), Obj(<< Prop(<<"e", "r", "r", "o", "r">>, Null) >>),
              Obj(<< Prop(<<"e", "r", "r", "o", "r">>, Null), Prop(<<"r", "e", "s", "u", "l", "t">>, Str(<<"0", "x", "5", "1">>)) >>)}

\* what the provider may call back with: <<e, r>>
RpcOutcomes ==
    {<<e, r>> : e \in TransportErrors, r \in {Undefined, Null} \cup RpcResponses}
        \cup {<<Null, r>> : r \in RpcResponses}

RpcCallbackArgs(e, r, sync) == [e |-> e, r |-> r, sync |-> sync]

\* a facade function whose executor raised before it sent anything: the
\* Promise constructor rejects the promise with the exception
IssueThrown(file, op, args, verboseArg, exc) ==
    /\ calls' = Append(calls, Settle(NewCall(file, op, args, verboseArg, << >>), "reject", exc))
    /\ UNCHANGED console

(* the functions of the Secret Store RPC module (unnamed/part_000) *)

\* faulty variant of signRawHash: the hash is sent as the caller passed it
rpc_signRawHash_hashAsIs(account, pwd, hash, verbose) ==
    Issue("unnamed/part_000", "signRawHash",
          [account |-> account, pwd |-> pwd, hash |-> hash],
          verbose, << Envelope(<<"s", "e", "c", "r", "e", "t", "s", "t", "o", "r", "e", "_", "s", "i", "g", "n", "R", "a", "w", "H", "a", "s", "h">>, <<account, pwd, hash>>) >>)

\* unnamed/part_000: signRawHash(web3, account, pwd, hash, verbose=true) is called
rpc_signRawHash(account, pwd, hash, verbose) ==
    LET h == add0x(hash)
    IN IF h.ok
       THEN Issue("unnamed/part_000", "signRawHash",
                  [account |-> account, pwd |-> pwd, hash |-> hash],
                  verbose, << Envelope(<<"s", "e", "c", "r", "e", "t", "s", "t", "o", "r", "e", "_", "s", "i", "g", "n", "R", "a", "w", "H", "a", "s", "h">>, <<account, pwd, h.val>>) >>)
       ELSE IssueThrown("unnamed/part_000", "signRawHash",
                        [account |-> account, pwd |-> pwd, hash |-> hash],
                        verbose, h.thrown)

\* faulty variant of the callback of signRawHash: `if (r.error)` in place
\* of `r.error !== undefined`
rpc_signRawHash_response_truthyError(i, e, r, sync) ==
    LET verbose == Verbose(calls[i])
        callback ==
            IF Truthy(e)
            THEN Reject(IF Truthy(verbose) THEN logError(e) ELSE << >>, e)
            ELSE IF ~CanReadProps(r)
            THEN Throw(<< >>, TypeError("Cannot read property 'error' of undefined"))
            ELSE IF Truthy(ReadProp(r, <<"e", "r", "r", "o", "r">>))
            THEN Reject(IF Truthy(verbose) THEN logError(ReadProp(r, <<"e", "r", "r", "o", "r">>)) ELSE << >>, ReadProp(r, <<"e", "r", "r", "o", "r">>))
            ELSE Resolve(<< >>, ReadProp(r, <<"r", "e", "s", "u", "l", "t">>))
    IN /\ i \in Awaiting("unnamed/part_000", "signRawHash")
       /\ Receive(i, callback, RpcCallbackArgs(e, r, sync), sync)

\* faulty variant of the callback of signRawHash: the error field of the
\* response is looked at before the transport error
rpc_signRawHash_response_errorFieldFirst(i, e, r, sync) ==
    LET verbose == Verbose(calls[i])
        callback ==
            IF CanReadProps(r) /\ ReadProp(r, <<"e", "r", "r", "o", "r">>) # Undefined
            THEN Reject(<< >>, ReadProp(r, <<"e", "r", "r", "o", "r">>))
            ELSE IF Truthy(e)
            THEN Reject(IF Truthy(verbose) THEN logError(e) ELSE << >>, e)
            ELSE IF ~CanReadProps(r)
            THEN Throw(<< >>, TypeError("Cannot read property 'error' of undefined"))
            ELSE IF ReadProp(r, <<"e", "r", "r", "o", "r">>) # Undefined
            THEN Reject(IF Truthy(verbose) THEN logError(ReadProp(r, <<"e", "r", "r", "o", "r">>)) ELSE << >>, ReadProp(r, <<"e", "r", "r", "o", "r">>))
            ELSE Resolve(<< >>, ReadProp(r, <<"r", "e", "s", "u", "l", "t">>))
    IN /\ i \in Awaiting("unnamed/part_000", "signRawHash")
       /\ Receive(i, callback, RpcCallbackArgs(e, r, sync), sync)

\* unnamed/part_000: the provider invokes the callback of signRawHash
rpc_signRawHash_response(i, e, r, sync) ==
    LET verbose == Verbose(calls[i])
        callback ==
            IF Truthy(e)
            THEN Reject(IF Truthy(verbose) THEN logError(e) ELSE << >>, e)
            ELSE IF ~CanReadProps(r)
            THEN Throw(<< >>, TypeError("Cannot read property 'error' of undefined"))
            ELSE IF ReadProp(r, <<"e", "r", "r", "o", "r">>) # Undefined
            THEN Reject(IF Truthy(verbose) THEN logError(ReadProp(r, <<"e", "r", "r", "o", "r">>)) ELSE << >>, ReadProp(r, <<"e", "r", "r", "o", "r">>))
            ELSE Resolve(<< >>, ReadProp(r, <<"r", "e", "s", "u", "l", "t">>))
    IN /\ i \in Awaiting("unnamed/part_000", "signRawHash")
       /\ Receive(i, callback, RpcCallbackArgs(e, r, sync), sync)

\* unnamed/part_000: generateDocumentKey(web3, account, pwd, serverKey, verbose=true) is called
rpc_generateDocumentKey(account, pwd, serverKey, verbose) ==
    LET envelope ==
            Envelope(<<"s", "e", "c", "r", "e", "t", "s", "t", "o", "r", "e", "_", "g", "e", "n", "e", "r", "a", "t", "e", "D", "o", "c", "u", "m", "e", "n", "t", "K", "e", "y">>, <<account, pwd, serverKey>>)
    IN Issue("unnamed/part_000", "generateDocumentKey",
             [account |-> account, pwd |-> pwd, serverKey |-> serverKey],
             verbose, << envelope >>)

\* faulty variant of the callback of generateDocumentKey: a response with
\* a result resolves, whether or not it holds an error
rpc_generateDocumentKey_response_resultFirst(i, e, r, sync) ==
    LET verbose == Verbose(calls[i])
        callback ==
            IF Truthy(e)
            THEN Reject(IF Truthy(verbose) THEN logError(e) ELSE << >>, e)
            ELSE IF ~CanReadProps(r)
            THEN Throw(<< >>, TypeError("Cannot read property 'error' of undefined"))
            ELSE IF ReadProp(r, <<"r", "e", "s", "u", "l", "t">>) # Undefined
            THEN Resolve(<< >>, ReadProp(r, <<"r", "e", "s", "u", "l", "t">>))
            ELSE IF ReadProp(r, <<"e", "r", "r", "o", "r">>) # Undefined
            THEN Reject(IF Truthy(verbose) THEN logError(ReadProp(r, <<"e", "r", "r", "o", "r">>)) ELSE << >>, ReadProp(r, <<"e", "r", "r", "o", "r">>))
            ELSE Resolve(<< >>, ReadProp(r, <<"r", "e", "s", "u", "l", "t">>))
    IN /\ i \in Awaiting("unnamed/part_000", "generateDocumentKey")
       /\ Receive(i, callback, RpcCallbackArgs(e, r, sync), sync)

\* unnamed/part_000: the provider invokes the callback of generateDocumentKey
rpc_generateDocumentKey_response(i, e, r, sync) ==
    LET verbose == Verbose(calls[i])
        callback ==
            IF Truthy(e)
            THEN Reject(IF Truthy(verbose) THEN logError(e) ELSE << >>, e)
            ELSE IF ~CanReadProps(r)
            THEN Throw(<< >>, TypeError("Cannot read property 'error' of undefined"))
            ELSE IF ReadProp(r, <<"e", "r", "r", "o", "r">>) # Undefined
            THEN Reject(IF Truthy(verbose) THEN logError(ReadProp(r, <<"e", "r", "r", "o", "r">>)) ELSE << >>, ReadProp(r, <<"e", "r", "r", "o", "r">>))
            ELSE Resolve(<< >>, ReadProp(r, <<"r", "e", "s", "u", "l", "t">>))
    IN /\ i \in Awaiting("unnamed/part_000", "generateDocumentKey")
       /\ Receive(i, callback, RpcCallbackArgs(e, r, sync), sync)

\* faulty variant of encrypt: the document is sent without its 0x prefix
rpc_encrypt_documentStripped(account, pwd, encryptedKey, hexDocument, verbose) ==
    Issue("unnamed/part_000", "encrypt",
          [account |-> account, pwd |-> pwd, encryptedKey |-> encryptedKey, hexDocument |-> hexDocument],
          verbose, << Envelope(<<"s", "e", "c", "r", "e", "t", "s", "t", "o", "r", "e", "_", "e", "n", "c", "r", "y", "p", "t">>, <<account, pwd, encryptedKey, Str(remove0x(hexDocument))>>) >>)

\* unnamed/part_000: encrypt(web3, account, pwd, encryptedKey, hexDocument, verbose=true) is called
rpc_encrypt(account, pwd, encryptedKey, hexDocument, verbose) ==
    LET envelope ==
            Envelope(<<"s", "e", "c", "r", "e", "t", "s", "t", "o", "r", "e", "_", "e", "n", "c", "r", "y", "p", "t">>, <<account, pwd, encryptedKey, hexDocument>>)
    IN Issue("unnamed/part_000", "encrypt",
             [account |-> account, pwd |-> pwd, encryptedKey |-> encryptedKey, hexDocument |-> hexDocument],
             verbose, << envelope >>)

\* faulty variant of the callback of encrypt: resolve and reject are those
\* of the call made last
rpc_encrypt_response_lastCall(i, e, r, sync) ==
    LET last == Len(calls)
        callback ==
            IF Truthy(e) THEN Reject(<< >>, e)
            ELSE IF ~CanReadProps(r)
            THEN Throw(<< >>, TypeError("Cannot read property 'error' of undefined"))
            ELSE IF ReadProp(r, <<"e", "r", "r", "o", "r">>) # Undefined
            THEN Reject(<< >>, ReadProp(r, <<"e", "r", "r", "o", "r">>))
            ELSE Resolve(<< >>, ReadProp(r, <<"r", "e", "s", "u", "l", "t">>))
        settled == [calls EXCEPT ![last] = Deliver(@, callback, sync)]
    IN /\ i \in Awaiting("unnamed/part_000", "encrypt")
       /\ calls' = [settled EXCEPT ![i].awaiting = FALSE,
                                   ![i].delivered = Append(@, RpcCallbackArgs(e, r, sync))]
       /\ UNCHANGED console

\* unnamed/part_000: the provider invokes the callback of encrypt
rpc_encrypt_response(i, e, r, sync) ==
    LET verbose == Verbose(calls[i])
        callback ==
            IF Truthy(e)
            THEN Reject(IF Truthy(verbose) THEN logError(e) ELSE << >>, e)
            ELSE IF ~CanReadProps(r)
            THEN Throw(<< >>, TypeError("Cannot read property 'error' of undefined"))
            ELSE IF ReadProp(r, <<"e", "r", "r", "o", "r">>) # Undefined
            THEN Reject(IF Truthy(verbose) THEN logError(ReadProp(r, <<"e", "r", "r", "o", "r">>)) ELSE << >>, ReadProp(r, <<"e", "r", "r", "o", "r">>))
            ELSE Resolve(<< >>, ReadProp(r, <<"r", "e", "s", "u", "l", "t">>))
    IN /\ i \in Awaiting("unnamed/part_000", "encrypt")
       /\ Receive(i, callback, RpcCallbackArgs(e, r, sync), sync)

\* unnamed/part_000: decrypt(web3, account, pwd, encryptedKey, encryptedDocument, verbose=true) is called
rpc_decrypt(account, pwd, encryptedKey, encryptedDocument, verbose) ==
    LET envelope ==
            Envelope(<<"s", "e", "c", "r", "e", "t", "s", "t", "o", "r", "e", "_", "d", "e", "c", "r", "y", "p", "t">>, <<account, pwd, encryptedKey, encryptedDocument>>)
    IN Issue("unnamed/part_000", "decrypt",
             [account |-> account, pwd |-> pwd, encryptedKey |-> encryptedKey, encryptedDocument |-> encryptedDocument],
             verbose, << envelope >>)

\* unnamed/part_000: the provider invokes the callback of decrypt
rpc_decrypt_response(i, e, r, sync) ==
    LET verbose == Verbose(calls[i])
        callback ==
            IF Truthy(e)
            THEN Reject(IF Truthy(verbose) THEN logError(e) ELSE << >>, e)
            ELSE IF ~CanReadProps(r)
            THEN Throw(<< >>, TypeError("Cannot read property 'error' of undefined"))
            ELSE IF ReadProp(r, <<"e", "r", "r", "o", "r">>) # Undefined
            THEN Reject(IF Truthy(verbose) THEN logError(ReadProp(r, <<"e", "r", "r", "o", "r">>)) ELSE << >>, ReadProp(r, <<"e", "r", "r", "o", "r">>))
            ELSE Resolve(<< >>, ReadProp(r, <<"r", "e", "s", "u", "l", "t">>))
    IN /\ i \in Awaiting("unnamed/part_000", "decrypt")
       /\ Receive(i, callback, RpcCallbackArgs(e, r, sync), sync)

\* unnamed/part_000: shadowDecrypt(web3, account, pwd, decryptedSecret, commonPoint, decryptShadows, encryptedDocument, verbose=true) is called
rpc_shadowDecrypt(account, pwd, decryptedSecret, commonPoint, decryptShadows, encryptedDocument, verbose) ==
    LET envelope ==
            Envelope(<<"s", "e", "c", "r", "e", "t", "s", "t", "o", "r", "e", "_", "s", "h", "a", "d", "o", "w", "D", "e", "c", "r", "y", "p", "t">>, <<account, pwd, decryptedSecret, commonPoint, decryptShadows, encryptedDocument>>)
    IN Issue("unnamed/part_000", "shadowDecrypt",
             [account |-> account, pwd |-> pwd, decryptedSecret |-> decryptedSecret, commonPoint |-> commonPoint, decryptShadows |-> decryptShadows, encryptedDocument |-> encryptedDocument],
             verbose, << envelope >>)

\* unnamed/part_000: the provider invokes the callback of shadowDecrypt
rpc_shadowDecrypt_response(i, e, r, sync) ==
    LET verbose == Verbose(calls[i])
        callback ==
            IF Truthy(e)
            THEN Reject(IF Truthy(verbose) THEN logError(e) ELSE << >>, e)
            ELSE IF ~CanReadProps(r)
            THEN Throw(<< >>, TypeError("Cannot read property 'error' of undefined"))
            ELSE IF ReadProp(r, <<"e", "r", "r", "o", "r">>) # Undefined
            THEN Reject(IF Truthy(verbose) THEN logError(ReadProp(r, <<"e", "r", "r", "o", "r">>)) ELSE << >>, ReadProp(r, <<"e", "r", "r", "o", "r">>))
            ELSE Resolve(<< >>, ReadProp(r, <<"r", "e", "s", "u", "l", "t">>))
    IN /\ i \in Awaiting("unnamed/part_000", "shadowDecrypt")
       /\ Receive(i, callback, RpcCallbackArgs(e, r, sync), sync)

\* unnamed/part_000: serversSetHash(web3, nodeIDs, verbose=true) is called
rpc_serversSetHash(nodeIDs, verbose) ==
    LET envelope ==
            Envelope(<<"s", "e", "c", "r", "e", "t", "s", "t", "o", "r", "e", "_", "s", "e", "r", "v", "e", "r", "s", "S", "e", "t", "H", "a", "s", "h">>, <<nodeIDs>>)
    IN Issue("unnamed/part_000", "serversSetHash",
             [nodeIDs |-> nodeIDs],
             verbose, << envelope >>)

\* unnamed/part_000: the provider invokes the callback of serversSetHash
rpc_serversSetHash_response(i, e, r, sync) ==
    LET verbose == Verbose(calls[i])
        callback ==
            IF Truthy(e)
            THEN Reject(IF Truthy(verbose) THEN logError(e) ELSE << >>, e)
            ELSE IF ~CanReadProps(r)
            THEN Throw(<< >>, TypeError("Cannot read property 'error' of undefined"))
            ELSE IF ReadProp(r, <<"e", "r", "r", "o", "r">>) # Undefined
            THEN Reject(IF Truthy(verbose) THEN logError(ReadProp(r, <<"e", "r", "r", "o", "r">>)) ELSE << >>, ReadProp(r, <<"e", "r", "r", "o", "r">>))
            ELSE Resolve(<< >>, ReadProp(r, <<"r", "e", "s", "u", "l", "t">>))
    IN /\ i \in Awaiting("unnamed/part_000", "serversSetHash")
       /\ Receive(i, callback, RpcCallbackArgs(e, r, sync), sync)

(* the RPC functions of secretstore.js *)

\* secretstore.js: signRawHash(web3, account, pwd, hash, verbose=true) is called
ss_signRawHash(account, pwd, hash, verbose) ==
    LET h == add0x(hash)
    IN IF h.ok
       THEN Issue("secretstore.js", "signRawHash",
                  [account |-> account, pwd |-> pwd, hash |-> hash],
                  verbose, << Envelope(<<"s", "e", "c", "r", "e", "t", "s", "t", "o", "r", "e", "_", "s", "i", "g", "n", "R", "a", "w", "H", "a", "s", "h">>, <<account, pwd, h.val>>) >>)
       ELSE IssueThrown("secretstore.js", "signRawHash",
                        [account |-> account, pwd |-> pwd, hash |-> hash],
                        verbose, h.thrown)

\* secretstore.js: the provider invokes the callback of signRawHash
ss_signRawHash_response(i, e, r, sync) ==
    LET verbose == Verbose(calls[i])
        callback ==
            IF Truthy(e)
            THEN Reject(IF Truthy(verbose) THEN logError(e) ELSE << >>, e)
            ELSE IF ~CanReadProps(r)
            THEN Throw(<< >>, TypeError("Cannot read property 'error' of undefined"))
            ELSE IF ReadProp(r, <<"e", "r", "r", "o", "r">>) # Undefined
            THEN Reject(IF Truthy(verbose) THEN logError(ReadProp(r, <<"e", "r", "r", "o", "r">>)) ELSE << >>, ReadProp(r, <<"e", "r", "r", "o", "r">>))
            ELSE Resolve(<< >>, ReadProp(r, <<"r", "e", "s", "u", "l", "t">>))
    IN /\ i \in Awaiting("secretstore.js", "signRawHash")
       /\ Receive(i, callback, RpcCallbackArgs(e, r, sync), sync)

\* secretstore.js: generateDocumentKey(web3, account, pwd, serverKey, verbose=true) is called
ss_generateDocumentKey(account, pwd, serverKey, verbose) ==
    LET envelope ==
            Envelope(<<"s", "e", "c", "r", "e", "t", "s", "t", "o", "r", "e", "_", "g", "e", "n", "e", "r", "a", "t", "e", "D", "o", "c", "u", "m", "e", "n", "t", "K", "e", "y">>, <<account, pwd, serverKey>>)
    IN Issue("secretstore.js", "generateDocumentKey",
             [account |-> account, pwd |-> pwd, serverKey |-> serverKey],
             verbose, << envelope >>)

\* secretstore.js: the provider invokes the callback of generateDocumentKey
ss_generateDocumentKey_response(i, e, r, sync) ==
    LET verbose == Verbose(calls[i])
        callback ==
            IF Truthy(e)
            THEN Reject(IF Truthy(verbose) THEN logError(e) ELSE << >>, e)
            ELSE IF ~CanReadProps(r)
            THEN Throw(<< >>, TypeError("Cannot read property 'error' of undefined"))
            ELSE IF ReadProp(r, <<"e", "r", "r", "o", "r">>) # Undefined
            THEN Reject(IF Truthy(verbose) THEN logError(ReadProp(r, <<"e", "r", "r", "o", "r">>)) ELSE << >>, ReadProp(r, <<"e", "r", "r", "o", "r">>))
            ELSE Resolve(<< >>, ReadProp(r, <<"r", "e", "s", "u", "l", "t">>))
    IN /\ i \in Awaiting("secretstore.js", "generateDocumentKey")
       /\ Receive(i, callback, RpcCallbackArgs(e, r, sync), sync)

\* secretstore.js: encrypt(web3, account, pwd, encryptedKey, hexDocument, verbose=true) is called
ss_encrypt(account, pwd, encryptedKey, hexDocument, verbose) ==
    LET envelope ==
            Envelope(<<"s", "e", "c", "r", "e", "t", "s", "t", "o", "r", "e", "_", "e", "n", "c", "r", "y", "p", "t">>, <<account, pwd, encryptedKey, hexDocument>>)
    IN Issue("secretstore.js", "encrypt",
             [account |-> account, pwd |-> pwd, encryptedKey |-> encryptedKey, hexDocument |-> hexDocument],
             verbose, << envelope >>)

\* secretstore.js: the provider invokes the callback of encrypt
ss_encrypt_response(i, e, r, sync) ==
    LET verbose == Verbose(calls[i])
        callback ==
            IF Truthy(e)
            THEN Reject(IF Truthy(verbose) THEN logError(e) ELSE << >>, e)
            ELSE IF ~CanReadProps(r)
            THEN Throw(<< >>, TypeError("Cannot read property 'error' of undefined"))
            ELSE IF ReadProp(r, <<"e", "r", "r", "o", "r">>) # Undefined
            THEN Reject(IF Truthy(verbose) THEN logError(ReadProp(r, <<"e", "r", "r", "o", "r">>)) ELSE << >>, ReadProp(r, <<"e", "r", "r", "o", "r">>))
            ELSE Resolve(<< >>, ReadProp(r, <<"r", "e", "s", "u", "l", "t">>))
    IN /\ i \in Awaiting("secretstore.js", "encrypt")
       /\ Receive(i, callback, RpcCallbackArgs(e, r, sync), sync)

\* secretstore.js: decrypt(web3, account, pwd, encryptedKey, encryptedDocument, verbose=true) is called
ss_decrypt(account, pwd, encryptedKey, encryptedDocument, verbose) ==
    LET envelope ==
            Envelope(<<"s", "e", "c", "r", "e", "t", "s", "t", "o", "r", "e", "_", "d", "e", "c", "r", "y", "p", "t">>, <<account, pwd, encryptedKey, encryptedDocument>>)
    IN Issue("secretstore.js", "decrypt",
             [account |-> account, pwd |-> pwd, encryptedKey |-> encryptedKey, encryptedDocument |-> encryptedDocument],
             verbose, << envelope >>)

\* secretstore.js: the provider invokes the callback of decrypt
ss_decrypt_response(i, e, r, sync) ==
    LET verbose == Verbose(calls[i])
        callback ==
            IF Truthy(e)
            THEN Reject(IF Truthy(verbose) THEN logError(e) ELSE << >>, e)
            ELSE IF ~CanReadProps(r)
            THEN Throw(<< >>, TypeError("Cannot read property 'error' of undefined"))
            ELSE IF ReadProp(r, <<"e", "r", "r", "o", "r">>) # Undefined
            THEN Reject(IF Truthy(verbose) THEN logError(ReadProp(r, <<"e", "r", "r", "o", "r">>)) ELSE << >>, ReadProp(r, <<"e", "r", "r", "o", "r">>))
            ELSE Resolve(<< >>, ReadProp(r, <<"r", "e", "s", "u", "l", "t">>))
    IN /\ i \in Awaiting("secretstore.js", "decrypt")
       /\ Receive(i, callback, RpcCallbackArgs(e, r, sync), sync)

\* secretstore.js: shadowDecrypt(web3, account, pwd, decryptedSecret, commonPoint, decryptShadows, encryptedDocument, verbose=true) is called
ss_shadowDecrypt(account, pwd, decryptedSecret, commonPoint, decryptShadows, encryptedDocument, verbose) ==
    LET envelope ==
            Envelope(<<"s", "e", "c", "r", "e", "t", "s", "t", "o", "r", "e", "_", "s", "h", "a", "d", "o", "w", "D", "e", "c", "r", "y", "p", "t">>, <<account, pwd, decryptedSecret, commonPoint, decryptShadows, encryptedDocument>>)
    IN Issue("secretstore.js", "shadowDecrypt",
             [account |-> account, pwd |-> pwd, decryptedSecret |-> decryptedSecret, commonPoint |-> commonPoint, decryptShadows |-> decryptShadows, encryptedDocument |-> encryptedDocument],
             verbose, << envelope >>)

\* secretstore.js: the provider invokes the callback of shadowDecrypt
ss_shadowDecrypt_response(i, e, r, sync) ==
    LET verbose == Verbose(calls[i])
        callback ==
            IF Truthy(e)
            THEN Reject(IF Truthy(verbose) THEN logError(e) ELSE << >>, e)
            ELSE IF ~CanReadProps(r)
            THEN Throw(<< >>, TypeError("Cannot read property 'error' of undefined"))
            ELSE IF ReadProp(r, <<"e", "r", "r", "o", "r">>) # Undefined
            THEN Reject(IF Truthy(verbose) THEN logError(ReadProp(r, <<"e", "r", "r", "o", "r">>)) ELSE << >>, ReadProp(r, <<"e", "r", "r", "o", "r">>))
            ELSE Resolve(<< >>, ReadProp(r, <<"r", "e", "s", "u", "l", "t">>))
    IN /\ i \in Awaiting("secretstore.js", "shadowDecrypt")
       /\ Receive(i, callback, RpcCallbackArgs(e, r, sync), sync)

\* faulty variant of serversSetHash of secretstore.js: the node IDs are
\* spread over the parameter list
ss_serversSetHash_listSpread(nodeIDs, verbose) ==
    Issue("secretstore.js", "serversSetHash",
          [nodeIDs |-> nodeIDs],
          verbose, << Envelope(<<"s", "e", "c", "r", "e", "t", "s", "t", "o", "r", "e", "_", "s", "e", "r", "v", "e", "r", "s", "S", "e", "t", "H", "a", "s", "h">>, nodeIDs.items) >>)

\* secretstore.js: serversSetHash(web3, nodeIDs, verbose=true) is called
ss_serversSetHash(nodeIDs, verbose) ==
    LET envelope ==
            Envelope(<<"s", "e", "c", "r", "e", "t", "s", "t", "o", "r", "e", "_", "s", "e", "r", "v", "e", "r", "s", "S", "e", "t", "H", "a", "s", "h">>, <<nodeIDs>>)
    IN Issue("secretstore.js", "serversSetHash",
             [nodeIDs |-> nodeIDs],
             verbose, << envelope >>)

\* secretstore.js: the provider invokes the callback of serversSetHash
ss_serversSetHash_response(i, e, r, sync) ==
    LET verbose == Verbose(calls[i])
        callback ==
            IF Truthy(e)
            THEN Reject(IF Truthy(verbose) THEN logError(e) ELSE << >>, e)
            ELSE IF ~CanReadProps(r)
            THEN Throw(<< >>, TypeError("Cannot read property 'error' of undefined"))
            ELSE IF ReadProp(r, <<"e", "r", "r", "o", "r">>) # Undefined
            THEN Reject(IF Truthy(verbose) THEN logError(ReadProp(r, <<"e", "r", "r", "o", "r">>)) ELSE << >>, ReadProp(r, <<"e", "r", "r", "o", "r">>))
            ELSE Resolve(<< >>, ReadProp(r, <<"r", "e", "s", "u", "l", "t">>))
    IN /\ i \in Awaiting("secretstore.js", "serversSetHash")
       /\ Receive(i, callback, RpcCallbackArgs(e, r, sync), sync)

(* the functions of private/private.js *)

\* private/private.js: composePublicTx(web3, tx, verbose=true) is called
private_composePublicTx(tx, verbose) ==
    LET envelope ==
            Envelope(<<"p", "a", "r", "i", "t", "y", "_", "c", "o", "m", "p", "o", "s", "e", "T", "r", "a", "n", "s", "a", "c", "t", "i", "o", "n">>, <<tx>>)
    IN Issue("private/private.js", "composePublicTx",
             [tx |-> tx],
             verbose, << envelope >>)

\* private/private.js: the provider invokes the callback of composePublicTx
private_composePublicTx_response(i, e, r, sync) ==
    LET verbose == Verbose(calls[i])
        callback ==
            IF Truthy(e)
            THEN Reject(IF Truthy(verbose) THEN logError(e) ELSE << >>, e)
            ELSE IF ~CanReadProps(r)
            THEN Throw(<< >>, TypeError("Cannot read property 'error' of undefined"))
            ELSE IF ReadProp(r, <<"e", "r", "r", "o", "r">>) # Undefined
            THEN Reject(IF Truthy(verbose) THEN logError(ReadProp(r, <<"e", "r", "r", "o", "r">>)) ELSE << >>, ReadProp(r, <<"e", "r", "r", "o", "r">>))
            ELSE Resolve(<< >>, ReadProp(r, <<"r", "e", "s", "u", "l", "t">>))
    IN /\ i \in Awaiting("private/private.js", "composePublicTx")
       /\ Receive(i, callback, RpcCallbackArgs(e, r, sync), sync)

\* faulty variant of composeDeploymentTx: no default gas price
private_composeDeploymentTx_gasPriceKept(rawData, validators, gasPrice, verbose) ==
    Issue("private/private.js", "composeDeploymentTx",
          [rawData |-> rawData, validators |-> validators, gasPrice |-> gasPrice],
          verbose, << Envelope(<<"p", "r", "i", "v", "a", "t", "e", "_", "c", "o", "m", "p", "o", "s", "e", "D", "e", "p", "l", "o", "y", "m", "e", "n", "t", "T", "r", "a", "n", "s", "a", "c", "t", "i", "o", "n">>, <<Str(<<"l", "a", "t", "e", "s", "t">>), rawData, validators, gasPrice>>) >>)

\* private/private.js: composeDeploymentTx(web3, rawData, validators, gasPrice, verbose=true) is called
private_composeDeploymentTx(rawData, validators, gasPrice, verbose) ==
    LET envelope ==
            Envelope(<<"p", "r", "i", "v", "a", "t", "e", "_", "c", "o", "m", "p", "o", "s", "e", "D", "e", "p", "l", "o", "y", "m", "e", "n", "t", "T", "r", "a", "n", "s", "a", "c", "t", "i", "o", "n">>,
                     <<Str(<<"l", "a", "t", "e", "s", "t">>), rawData, validators, DefaultParam(gasPrice, Str(<<"0", "x", "0">>))>>)
    IN Issue("private/private.js", "composeDeploymentTx",
             [rawData |-> rawData, validators |-> validators, gasPrice |-> gasPrice],
             verbose, << envelope >>)

\* private/private.js: the provider invokes the callback of composeDeploymentTx
private_composeDeploymentTx_response(i, e, r, sync) ==
    LET verbose == Verbose(calls[i])
        callback ==
            IF Truthy(e)
            THEN Reject(IF Truthy(verbose) THEN logError(e) ELSE << >>, e)
            ELSE IF ~CanReadProps(r)
            THEN Throw(<< >>, TypeError("Cannot read property 'error' of undefined"))
            ELSE IF ReadProp(r, <<"e", "r", "r", "o", "r">>) # Undefined
            THEN Reject(IF Truthy(verbose) THEN logError(ReadProp(r, <<"e", "r", "r", "o", "r">>)) ELSE << >>, ReadProp(r, <<"e", "r", "r", "o", "r">>))
            ELSE Resolve(<< >>, ReadProp(r, <<"r", "e", "s", "u", "l", "t">>))
    IN /\ i \in Awaiting("private/private.js", "composeDeploymentTx")
       /\ Receive(i, callback, RpcCallbackArgs(e, r, sync), sync)

\* private/private.js: call(web3, tx, verbose=true) is called
private_call(tx, verbose) ==
    LET envelope ==
            Envelope(<<"p", "r", "i", "v", "a", "t", "e", "_", "c", "a", "l", "l">>, <<Str(<<"l", "a", "t", "e", "s", "t">>), tx>>)
    IN Issue("private/private.js", "call",
             [tx |-> tx],
             verbose, << envelope >>)

\* private/private.js: the provider invokes the callback of call
private_call_response(i, e, r, sync) ==
    LET verbose == Verbose(calls[i])
        callback ==
            IF Truthy(e)
            THEN Reject(IF Truthy(verbose) THEN logError(e) ELSE << >>, e)
            ELSE IF ~CanReadProps(r)
            THEN Throw(<< >>, TypeError("Cannot read property 'error' of undefined"))
            ELSE IF ReadProp(r, <<"e", "r", "r", "o", "r">>) # Undefined
            THEN Reject(IF Truthy(verbose) THEN logError(ReadProp(r, <<"e", "r", "r", "o", "r">>)) ELSE << >>, ReadProp(r, <<"e", "r", "r", "o", "r">>))
            ELSE Resolve(<< >>, ReadProp(r, <<"r", "e", "s", "u", "l", "t">>))
    IN /\ i \in Awaiting("private/private.js", "call")
       /\ Receive(i, callback, RpcCallbackArgs(e, r, sync), sync)

\* private/private.js: sendTransaction(web3, tx, verbose=true) is called
private_sendTransaction(tx, verbose) ==
    LET envelope ==
            Envelope(<<"p", "r", "i", "v", "a", "t", "e", "_", "s", "e", "n", "d", "T", "r", "a", "n", "s", "a", "c", "t", "i", "o", "n">>, <<tx>>)
    IN Issue("private/private.js", "sendTransaction",
             [tx |-> tx],
             verbose, << envelope >>)

\* private/private.js: the provider invokes the callback of sendTransaction
private_sendTransaction_response(i, e, r, sync) ==
    LET verbose == Verbose(calls[i])
        callback ==
            IF Truthy(e)
            THEN Reject(logError(e), e)
            ELSE IF ~CanReadProps(r)
            THEN Throw(<< >>, TypeError("Cannot read property 'error' of undefined"))
            ELSE IF ReadProp(r, <<"e", "r", "r", "o", "r">>) # Undefined
            THEN Reject(logError(ReadProp(r, <<"e", "r", "r", "o", "r">>)), ReadProp(r, <<"e", "r", "r", "o", "r">>))
            ELSE Resolve(<< >>, ReadProp(r, <<"r", "e", "s", "u", "l", "t">>))
    IN /\ i \in Awaiting("private/private.js", "sendTransaction")
       /\ Receive(i, callback, RpcCallbackArgs(e, r, sync), sync)

\* private/private.js: contractKey(web3, address, verbose=true) is called
private_contractKey(address, verbose) ==
    LET envelope ==
            Envelope(<<"p", "r", "i", "v", "a", "t", "e", "_", "c", "o", "n", "t", "r", "a", "c", "t", "K", "e", "y">>, <<address>>)
    IN Issue("private/private.js", "contractKey",
             [address |-> address],
             verbose, << envelope >>)

\* private/private.js: the provider invokes the callback of contractKey
private_contractKey_response(i, e, r, sync) ==
    LET verbose == Verbose(calls[i])
        callback ==
            IF Truthy(e)
            THEN Reject(IF Truthy(verbose) THEN logError(e) ELSE << >>, e)
            ELSE IF ~CanReadProps(r)
            THEN Throw(<< >>, TypeError("Cannot read property 'error' of undefined"))
            ELSE IF ReadProp(r, <<"e", "r", "r", "o", "r">>) # Undefined
            THEN Reject(IF Truthy(verbose) THEN logError(ReadProp(r, <<"e", "r", "r", "o", "r">>)) ELSE << >>, ReadProp(r, <<"e", "r", "r", "o", "r">>))
            ELSE Resolve(<< >>, ReadProp(r, <<"r", "e", "s", "u", "l", "t">>))
    IN /\ i \in Awaiting("private/private.js", "contractKey")
       /\ Receive(i, callback, RpcCallbackArgs(e, r, sync), sync)

(* the functions of the private module with send (unnamed/part_001) *)

\* unnamed/part_001: composePublicTx(web3, tx, verbose=true) is called
part001_composePublicTx(tx, verbose) ==
    LET envelope ==
            Envelope(<<"p", "a", "r", "i", "t", "y", "_", "c", "o", "m", "p", "o", "s", "e", "T", "r", "a", "n", "s", "a", "c", "t", "i", "o", "n">>, <<tx>>)
    IN Issue("unnamed/part_001", "composePublicTx",
             [tx |-> tx],
             verbose, << envelope >>)

\* unnamed/part_001: the provider invokes the callback of composePublicTx
part001_composePublicTx_response(i, e, r, sync) ==
    LET verbose == Verbose(calls[i])
        callback ==
            IF Truthy(e)
            THEN Reject(IF Truthy(verbose) THEN logError(e) ELSE << >>, e)
            ELSE IF ~CanReadProps(r)
            THEN Throw(<< >>, TypeError("Cannot read property 'error' of undefined"))
            ELSE IF ReadProp(r, <<"e", "r", "r", "o", "r">>) # Undefined
            THEN Reject(IF Truthy(verbose) THEN logError(ReadProp(r, <<"e", "r", "r", "o", "r">>)) ELSE << >>, ReadProp(r, <<"e", "r", "r", "o", "r">>))
            ELSE Resolve(<< >>, ReadProp(r, <<"r", "e", "s", "u", "l", "t">>))
    IN /\ i \in Awaiting("unnamed/part_001", "composePublicTx")
       /\ Receive(i, callback, RpcCallbackArgs(e, r, sync), sync)

\* unnamed/part_001: composeDeploymentTx(web3, rawData, validators, gasPrice, verbose=true) is called
part001_composeDeploymentTx(rawData, validators, gasPrice, verbose) ==
    LET envelope ==
            Envelope(<<"p", "r", "i", "v", "a", "t", "e", "_", "c", "o", "m", "p", "o", "s", "e", "D", "e", "p", "l", "o", "y", "m", "e", "n", "t", "T", "r", "a", "n", "s", "a", "c", "t", "i", "o", "n">>,
                     <<Str(<<"l", "a", "t", "e", "s", "t">>), rawData, validators, DefaultParam(gasPrice, Str(<<"0", "x", "0">>))>>)
    IN Issue("unnamed/part_001", "composeDeploymentTx",
             [rawData |-> rawData, validators |-> validators, gasPrice |-> gasPrice],
             verbose, << envelope >>)

\* faulty variant of the callback of composeDeploymentTx: it resolves with
\* the whole response envelope
part001_composeDeploymentTx_response_wholeEnvelope(i, e, r, sync) ==
    LET verbose == Verbose(calls[i])
        callback ==
            IF Truthy(e)
            THEN Reject(IF Truthy(verbose) THEN logError(e) ELSE << >>, e)
            ELSE IF ~CanReadProps(r)
            THEN Throw(<< >>, TypeError("Cannot read property 'error' of undefined"))
            ELSE IF ReadProp(r, <<"e", "r", "r", "o", "r">>) # Undefined
            THEN Reject(IF Truthy(verbose) THEN logError(ReadProp(r, <<"e", "r", "r", "o", "r">>)) ELSE << >>, ReadProp(r, <<"e", "r", "r", "o", "r">>))
            ELSE Resolve(<< >>, r)
    IN /\ i \in Awaiting("unnamed/part_001", "composeDeploymentTx")
       /\ Receive(i, callback, RpcCallbackArgs(e, r, sync), sync)

\* unnamed/part_001: the provider invokes the callback of composeDeploymentTx
part001_composeDeploymentTx_response(i, e, r, sync) ==
    LET verbose == Verbose(calls[i])
        callback ==
            IF Truthy(e)
            THEN Reject(IF Truthy(verbose) THEN logError(e) ELSE << >>, e)
            ELSE IF ~CanReadProps(r)
            THEN Throw(<< >>, TypeError("Cannot read property 'error' of undefined"))
            ELSE IF ReadProp(r, <<"e", "r", "r", "o", "r">>) # Undefined
            THEN Reject(IF Truthy(verbose) THEN logError(ReadProp(r, <<"e", "r", "r", "o", "r">>)) ELSE << >>, ReadProp(r, <<"e", "r", "r", "o", "r">>))
            ELSE Resolve(<< >>, ReadProp(r, <<"r", "e", "s", "u", "l", "t">>))
    IN /\ i \in Awaiting("unnamed/part_001", "composeDeploymentTx")
       /\ Receive(i, callback, RpcCallbackArgs(e, r, sync), sync)

\* unnamed/part_001: call(web3, tx, verbose=true) is called
part001_call(tx, verbose) ==
    LET envelope ==
            Envelope(<<"p", "r", "i", "v", "a", "t", "e", "_", "c", "a", "l", "l">>, <<Str(<<"l", "a", "t", "e", "s", "t">>), tx>>)
    IN Issue("unnamed/part_001", "call",
             [tx |-> tx],
             verbose, << envelope >>)

\* unnamed/part_001: the provider invokes the callback of call
part001_call_response(i, e, r, sync) ==
    LET verbose == Verbose(calls[i])
        callback ==
            IF Truthy(e)
            THEN Reject(IF Truthy(verbose) THEN logError(e) ELSE << >>, e)
            ELSE IF ~CanReadProps(r)
            THEN Throw(<< >>, TypeError("Cannot read property 'error' of undefined"))
            ELSE IF ReadProp(r, <<"e", "r", "r", "o", "r">>) # Undefined
            THEN Reject(IF Truthy(verbose) THEN logError(ReadProp(r, <<"e", "r", "r", "o", "r">>)) ELSE << >>, ReadProp(r, <<"e", "r", "r", "o", "r">>))
            ELSE Resolve(<< >>, ReadProp(r, <<"r", "e", "s", "u", "l", "t">>))
    IN /\ i \in Awaiting("unnamed/part_001", "call")
       /\ Receive(i, callback, RpcCallbackArgs(e, r, sync), sync)

\* unnamed/part_001: send(web3, tx, verbose=true) is called
part001_send(tx, verbose) ==
    LET envelope ==
            Envelope(<<"p", "r", "i", "v", "a", "t", "e", "_", "s", "e", "n", "d", "T", "r", "a", "n", "s", "a", "c", "t", "i", "o", "n">>, <<tx>>)
    IN Issue("unnamed/part_001", "send",
             [tx |-> tx],
             verbose, << envelope >>)

\* unnamed/part_001: the provider invokes the callback of send
part001_send_response(i, e, r, sync) ==
    LET verbose == Verbose(calls[i])
        callback ==
            IF Truthy(e)
            THEN Reject(IF Truthy(verbose) THEN logError(e) ELSE << >>, e)
            ELSE IF ~CanReadProps(r)
            THEN Throw(<< >>, TypeError("Cannot read property 'error' of undefined"))
            ELSE IF ReadProp(r, <<"e", "r", "r", "o", "r">>) # Undefined
            THEN Reject(IF Truthy(verbose) THEN logError(ReadProp(r, <<"e", "r", "r", "o", "r">>)) ELSE << >>, ReadProp(r, <<"e", "r", "r", "o", "r">>))
            ELSE Resolve(<< >>, ReadProp(r, <<"r", "e", "s", "u", "l", "t">>))
    IN /\ i \in Awaiting("unnamed/part_001", "send")
       /\ Receive(i, callback, RpcCallbackArgs(e, r, sync), sync)

\* unnamed/part_001: contractKey(web3, address, verbose=true) is called
part001_contractKey(address, verbose) ==
    LET envelope ==
            Envelope(<<"p", "r", "i", "v", "a", "t", "e", "_", "c", "o", "n", "t", "r", "a", "c", "t", "K", "e", "y">>, <<address>>)
    IN Issue("unnamed/part_001", "contractKey",
             [address |-> address],
             verbose, << envelope >>)

\* unnamed/part_001: the provider invokes the callback of contractKey
part001_contractKey_response(i, e, r, sync) ==
    LET verbose == Verbose(calls[i])
        callback ==
            IF Truthy(e)
            THEN Reject(IF Truthy(verbose) THEN logError(e) ELSE << >>, e)
            ELSE IF ~CanReadProps(r)
            THEN Throw(<< >>, TypeError("Cannot read property 'error' of undefined"))
            ELSE IF ReadProp(r, <<"e", "r", "r", "o", "r">>) # Undefined
            THEN Reject(IF Truthy(verbose) THEN logError(ReadProp(r, <<"e", "r", "r", "o", "r">>)) ELSE << >>, ReadProp(r, <<"e", "r", "r", "o", "r">>))
            ELSE Resolve(<< >>, ReadProp(r, <<"r", "e", "s", "u", "l", "t">>))
    IN /\ i \in Awaiting("unnamed/part_001", "contractKey")
       /\ Receive(i, callback, RpcCallbackArgs(e, r, sync), sync)

\* one call of a JSON-RPC function and the callback of its request
NextRpc ==
    \/ \E account \in Accounts, pwd \in Passwords, hash \in Hashes, verbose \in Verboses :
          calls = << >> /\ rpc_signRawHash(account, pwd, hash, verbose)
    \/ \E account \in Accounts, pwd \in Passwords, serverKey \in HexValues, verbose \in Verboses :
          calls = << >> /\ rpc_generateDocumentKey(account, pwd, serverKey, verbose)
    \/ \E account \in Accounts, pwd \in Passwords, encryptedKey \in HexValues, hexDocument \in HexValues, verbose \in Verboses :
          calls = << >> /\ rpc_encrypt(account, pwd, encryptedKey, hexDocument, verbose)
    \/ \E account \in Accounts, pwd \in Passwords, encryptedKey \in HexValues, encryptedDocument \in HexValues, verbose \in Verboses :
          calls = << >> /\ rpc_decrypt(account, pwd, encryptedKey, encryptedDocument, verbose)
    \/ \E account \in Accounts, pwd \in Passwords, decryptedSecret \in HexValues, commonPoint \in HexValues, decryptShadows \in HexLists, encryptedDocument \in HexValues, verbose \in Verboses :
          calls = << >> /\ rpc_shadowDecrypt(account, pwd, decryptedSecret, commonPoint, decryptShadows, encryptedDocument, verbose)
    \/ \E nodeIDs \in NodeIDLists, verbose \in Verboses :
          calls = << >> /\ rpc_serversSetHash(nodeIDs, verbose)
    \/ \E account \in Accounts, pwd \in Passwords, hash \in Hashes, verbose \in Verboses :
          calls = << >> /\ ss_signRawHash(account, pwd, hash, verbose)
    \/ \E account \in Accounts, pwd \in Passwords, serverKey \in HexValues, verbose \in Verboses :
          calls = << >> /\ ss_generateDocumentKey(account, pwd, serverKey, verbose)
    \/ \E account \in Accounts, pwd \in Passwords, encryptedKey \in HexValues, hexDocument \in HexValues, verbose \in Verboses :
          calls = << >> /\ ss_encrypt(account, pwd, encryptedKey, hexDocument, verbose)
    \/ \E account \in Accounts, pwd \in Passwords, encryptedKey \in HexValues, encryptedDocument \in HexValues, verbose \in Verboses :
          calls = << >> /\ ss_decrypt(account, pwd, encryptedKey, encryptedDocument, verbose)
    \/ \E account \in Accounts, pwd \in Passwords, decryptedSecret \in HexValues, commonPoint \in HexValues, decryptShadows \in HexLists, encryptedDocument \in HexValues, verbose \in Verboses :
          calls = << >> /\ ss_shadowDecrypt(account, pwd, decryptedSecret, commonPoint, decryptShadows, encryptedDocument, verbose)
    \/ \E nodeIDs \in NodeIDLists, verbose \in Verboses :
          calls = << >> /\ ss_serversSetHash(nodeIDs, verbose)
    \/ \E tx \in Transactions, verbose \in Verboses :
          calls = << >> /\ private_composePublicTx(tx, verbose)
    \/ \E rawData \in HexValues, validators \in HexLists, gasPrice \in GasPrices, verbose \in Verboses :
          calls = << >> /\ private_composeDeploymentTx(rawData, validators, gasPrice, verbose)
    \/ \E tx \in Transactions, verbose \in Verboses :
          calls = << >> /\ private_call(tx, verbose)
    \/ \E tx \in Transactions, verbose \in Verboses :
          calls = << >> /\ private_sendTransaction(tx, verbose)
    \/ \E address \in HexValues, verbose \in Verboses :
          calls = << >> /\ private_contractKey(address, verbose)
    \/ \E tx \in Transactions, verbose \in Verboses :
          calls = << >> /\ part001_composePublicTx(tx, verbose)
    \/ \E rawData \in HexValues, validators \in HexLists, gasPrice \in GasPrices, verbose \in Verboses :
          calls = << >> /\ part001_composeDeploymentTx(rawData, validators, gasPrice, verbose)
    \/ \E tx \in Transactions, verbose \in Verboses :
          calls = << >> /\ part001_call(tx, verbose)
    \/ \E tx \in Transactions, verbose \in Verboses :
          calls = << >> /\ part001_send(tx, verbose)
    \/ \E address \in HexValues, verbose \in Verboses :
          calls = << >> /\ part001_contractKey(address, verbose)
    \/ \E i \in Awaiting("unnamed/part_000", "signRawHash"), o \in RpcOutcomes, sync \in BOOLEAN :
          rpc_signRawHash_response(i, o[1], o[2], sync)
    \/ \E i \in Awaiting("unnamed/part_000", "generateDocumentKey"), o \in RpcOutcomes, sync \in BOOLEAN :
          rpc_generateDocumentKey_response(i, o[1], o[2], sync)
    \/ \E i \in Awaiting("unnamed/part_000", "encrypt"), o \in RpcOutcomes, sync \in BOOLEAN :
          rpc_encrypt_response(i, o[1], o[2], sync)
    \/ \E i \in Awaiting("unnamed/part_000", "decrypt"), o \in RpcOutcomes, sync \in BOOLEAN :
          rpc_decrypt_response(i, o[1], o[2], sync)
    \/ \E i \in Awaiting("unnamed/part_000", "shadowDecrypt"), o \in RpcOutcomes, sync \in BOOLEAN :
          rpc_shadowDecrypt_response(i, o[1], o[2], sync)
    \/ \E i \in Awaiting("unnamed/part_000", "serversSetHash"), o \in RpcOutcomes, sync \in BOOLEAN :
          rpc_serversSetHash_response(i, o[1], o[2], sync)
    \/ \E i \in Awaiting("secretstore.js", "signRawHash"), o \in RpcOutcomes, sync \in BOOLEAN :
          ss_signRawHash_response(i, o[1], o[2], sync)
    \/ \E i \in Awaiting("secretstore.js", "generateDocumentKey"), o \in RpcOutcomes, sync \in BOOLEAN :
          ss_generateDocumentKey_response(i, o[1], o[2], sync)
    \/ \E i \in Awaiting("secretstore.js", "encrypt"), o \in RpcOutcomes, sync \in BOOLEAN :
          ss_encrypt_response(i, o[1], o[2], sync)
    \/ \E i \in Awaiting("secretstore.js", "decrypt"), o \in RpcOutcomes, sync \in BOOLEAN :
          ss_decrypt_response(i, o[1], o[2], sync)
    \/ \E i \in Awaiting("secretstore.js", "shadowDecrypt"), o \in RpcOutcomes, sync \in BOOLEAN :
          ss_shadowDecrypt_response(i, o[1], o[2], sync)
    \/ \E i \in Awaiting("secretstore.js", "serversSetHash"), o \in RpcOutcomes, sync \in BOOLEAN :
          ss_serversSetHash_response(i, o[1], o[2], sync)
    \/ \E i \in Awaiting("private/private.js", "composePublicTx"), o \in RpcOutcomes, sync \in BOOLEAN :
          private_composePublicTx_response(i, o[1], o[2], sync)
    \/ \E i \in Awaiting("private/private.js", "composeDeploymentTx"), o \in RpcOutcomes, sync \in BOOLEAN :
          private_composeDeploymentTx_response(i, o[1], o[2], sync)
    \/ \E i \in Awaiting("private/private.js", "call"), o \in RpcOutcomes, sync \in BOOLEAN :
          private_call_response(i, o[1], o[2], sync)
    \/ \E i \in Awaiting("private/private.js", "sendTransaction"), o \in RpcOutcomes, sync \in BOOLEAN :
          private_sendTransaction_response(i, o[1], o[2], sync)
    \/ \E i \in Awaiting("private/private.js", "contractKey"), o \in RpcOutcomes, sync \in BOOLEAN :
          private_contractKey_response(i, o[1], o[2], sync)
    \/ \E i \in Awaiting("unnamed/part_001", "composePublicTx"), o \in RpcOutcomes, sync \in BOOLEAN :
          part001_composePublicTx_response(i, o[1], o[2], sync)
    \/ \E i \in Awaiting("unnamed/part_001", "composeDeploymentTx"), o \in RpcOutcomes, sync \in BOOLEAN :
          part001_composeDeploymentTx_response(i, o[1], o[2], sync)
    \/ \E i \in Awaiting("unnamed/part_001", "call"), o \in RpcOutcomes, sync \in BOOLEAN :
          part001_call_response(i, o[1], o[2], sync)
    \/ \E i \in Awaiting("unnamed/part_001", "send"), o \in RpcOutcomes, sync \in BOOLEAN :
          part001_send_response(i, o[1], o[2], sync)
    \/ \E i \in Awaiting("unnamed/part_001", "contractKey"), o \in RpcOutcomes, sync \in BOOLEAN :
          part001_contractKey_response(i, o[1], o[2], sync)

SpecRpc == Init /\ [][NextRpc]_vars

\* one call of any facade function
Next == NextSession \/ NextRpc

Spec == Init /\ [][Next]_vars

(* --------------------- the same call, loud and silent ------------------- *)

\* a schedule for comparing verbose values: the first call is made with
\* verbose true, the second one is the same call with verbose false, made
\* before the transport answers
TwinCalls ==
    /\ calls[1].verbose = Bool(TRUE)
    /\ Len(calls) = 2
           => /\ calls[1].delivered = << >>
              /\ calls[2].file = calls[1].file
              /\ calls[2].op = calls[1].op
              /\ calls[2].args = calls[1].args
              /\ calls[2].verbose = Bool(FALSE)

\* ... and the transport, once both calls are made, invokes the callback of
\* call i with the arguments it gave or will give the other call
TwinAnswer(i, cbargs) ==
    /\ Len(calls) = 2
    /\ \A j \in DOMAIN calls \ {i} :
           calls[j].delivered # << >> => calls[j].delivered = <<cbargs>>

NextTwin ==
    \/ \E url \in Urls, serverKeyID \in ServerKeyIDs, signedServerKeyID \in SignedServerKeyIDs, threshold \in Thresholds, verbose \in Verboses :
          Len(calls) < 2 /\ generateServerKey(url, serverKeyID, signedServerKeyID, threshold, verbose) /\ TwinCalls'
    \/ \E url \in Urls, serverKeyID \in ServerKeyIDs, signedServerKeyID \in SignedServerKeyIDs, threshold \in Thresholds, verbose \in Verboses :
          Len(calls) < 2 /\ generateServerAndDocumentKey(url, serverKeyID, signedServerKeyID, threshold, verbose) /\ TwinCalls'
    \/ \E url \in Urls, serverKeyID \in ServerKeyIDs, signedServerKeyID \in SignedServerKeyIDs, verbose \in Verboses :
          Len(calls) < 2 /\ shadowRetrieveDocumentKey(url, serverKeyID, signedServerKeyID, verbose) /\ TwinCalls'
    \/ \E url \in Urls, serverKeyID \in ServerKeyIDs, signedServerKeyID \in SignedServerKeyIDs, verbose \in Verboses :
          Len(calls) < 2 /\ retrieveDocumentKey(url, serverKeyID, signedServerKeyID, verbose) /\ TwinCalls'
    \/ \E url \in Urls, serverKeyID \in ServerKeyIDs, signedServerKeyID \in SignedServerKeyIDs, messageHash \in MessageHashes, verbose \in Verboses :
          Len(calls) < 2 /\ signSchnorr(url, serverKeyID, signedServerKeyID, messageHash, verbose) /\ TwinCalls'
    \/ \E url \in Urls, serverKeyID \in ServerKeyIDs, signedServerKeyID \in SignedServerKeyIDs, messageHash \in MessageHashes, verbose \in Verboses :
          Len(calls) < 2 /\ signEcdsa(url, serverKeyID, signedServerKeyID, messageHash, verbose) /\ TwinCalls'
    \/ \E url \in Urls, serverKeyID \in ServerKeyIDs, signedServerKeyID \in SignedServerKeyIDs, commonPoint \in CommonPoints, encryptedPoint \in EncryptedPoints, verbose \in Verboses :
          Len(calls) < 2 /\ storeDocumentKey(url, serverKeyID, signedServerKeyID, commonPoint, encryptedPoint, verbose) /\ TwinCalls'
    \/ \E url \in Urls, nodeIDsNewSet \in NodeIDLists, signatureOldSet \in SignaturesOldSet, signatureNewSet \in SignaturesNewSet, verbose \in Verboses :
          Len(calls) < 2 /\ nodesSetChange(url, nodeIDsNewSet, signatureOldSet, signatureNewSet, verbose) /\ TwinCalls'
    \/ \E url \in Urls, serverKeyID \in ServerKeyIDs, signedServerKeyID \in SignedServerKeyIDs, threshold \in Thresholds, verbose \in Verboses :
          Len(calls) < 2 /\ ss_generateServerKey(url, serverKeyID, signedServerKeyID, threshold, verbose) /\ TwinCalls'
    \/ \E url \in Urls, serverKeyID \in ServerKeyIDs, signedServerKeyID \in SignedServerKeyIDs, threshold \in Thresholds, verbose \in Verboses :
          Len(calls) < 2 /\ ss_generateServerAndDocumentKey(url, serverKeyID, signedServerKeyID, threshold, verbose) /\ TwinCalls'
    \/ \E url \in Urls, serverKeyID \in ServerKeyIDs, signedServerKeyID \in SignedServerKeyIDs, verbose \in Verboses :
          Len(calls) < 2 /\ ss_shadowRetrieveDocumentKey(url, serverKeyID, signedServerKeyID, verbose) /\ TwinCalls'
    \/ \E url \in Urls, serverKeyID \in ServerKeyIDs, signedServerKeyID \in SignedServerKeyIDs, verbose \in Verboses :
          Len(calls) < 2 /\ ss_retrieveDocumentKey(url, serverKeyID, signedServerKeyID, verbose) /\ TwinCalls'
    \/ \E url \in Urls, serverKeyID \in ServerKeyIDs, signedServerKeyID \in SignedServerKeyIDs, messageHash \in MessageHashes, verbose \in Verboses :
          Len(calls) < 2 /\ ss_signSchnorr(url, serverKeyID, signedServerKeyID, messageHash, verbose) /\ TwinCalls'
    \/ \E url \in Urls, serverKeyID \in ServerKeyIDs, signedServerKeyID \in SignedServerKeyIDs, messageHash \in MessageHashes, verbose \in Verboses :
          Len(calls) < 2 /\ ss_signEcdsa(url, serverKeyID, signedServerKeyID, messageHash, verbose) /\ TwinCalls'
    \/ \E url \in Urls, serverKeyID \in ServerKeyIDs, signedServerKeyID \in SignedServerKeyIDs, commonPoint \in CommonPoints, encryptedPoint \in EncryptedPoints, verbose \in Verboses :
          Len(calls) < 2 /\ ss_storeDocumentKey(url, serverKeyID, signedServerKeyID, commonPoint, encryptedPoint, verbose) /\ TwinCalls'
    \/ \E url \in Urls, nodeIDsNewSet \in NodeIDLists, signatureOldSet \in SignaturesOldSet, signatureNewSet \in SignaturesNewSet, verbose \in Verboses :
          Len(calls) < 2 /\ ss_nodesSetChange(url, nodeIDsNewSet, signatureOldSet, signatureNewSet, verbose) /\ TwinCalls'
    \/ \E i \in Awaiting("secretstore/session.js", "generateServerKey"), o \in HttpOutcomes, sync \in BOOLEAN :
          TwinAnswer(i, CallbackArgs(o[1], o[2], o[3], sync)) /\ generateServerKey_response(i, o[1], o[2], o[3], sync)
    \/ \E i \in Awaiting("secretstore/session.js", "generateServerAndDocumentKey"), o \in HttpOutcomes, sync \in BOOLEAN :
          TwinAnswer(i, CallbackArgs(o[1], o[2], o[3], sync)) /\ generateServerAndDocumentKey_response(i, o[1], o[2], o[3], sync)
    \/ \E i \in Awaiting("secretstore/session.js", "shadowRetrieveDocumentKey"), o \in HttpOutcomes, sync \in BOOLEAN :
          TwinAnswer(i, CallbackArgs(o[1], o[2], o[3], sync)) /\ shadowRetrieveDocumentKey_response(i, o[1], o[2], o[3], sync)
    \/ \E i \in Awaiting("secretstore/session.js", "retrieveDocumentKey"), o \in HttpOutcomes, sync \in BOOLEAN :
          TwinAnswer(i, CallbackArgs(o[1], o[2], o[3], sync)) /\ retrieveDocumentKey_response(i, o[1], o[2], o[3], sync)
    \/ \E i \in Awaiting("secretstore/session.js", "signSchnorr"), o \in HttpOutcomes, sync \in BOOLEAN :
          TwinAnswer(i, CallbackArgs(o[1], o[2], o[3], sync)) /\ signSchnorr_response(i, o[1], o[2], o[3], sync)
    \/ \E i \in Awaiting("secretstore/session.js", "signEcdsa"), o \in HttpOutcomes, sync \in BOOLEAN :
          TwinAnswer(i, CallbackArgs(o[1], o[2], o[3], sync)) /\ signEcdsa_response(i, o[1], o[2], o[3], sync)
    \/ \E i \in Awaiting("secretstore/session.js", "storeDocumentKey"), o \in HttpOutcomes, sync \in BOOLEAN :
          TwinAnswer(i, CallbackArgs(o[1], o[2], o[3], sync)) /\ storeDocumentKey_response(i, o[1], o[2], o[3], sync)
    \/ \E i \in Awaiting("secretstore/session.js", "nodesSetChange"), o \in HttpOutcomes, sync \in BOOLEAN :
          TwinAnswer(i, CallbackArgs(o[1], o[2], o[3], sync)) /\ nodesSetChange_response(i, o[1], o[2], o[3], sync)
    \/ \E i \in Awaiting("secretstore.js", "generateServerKey"), o \in HttpOutcomes, sync \in BOOLEAN :
          TwinAnswer(i, CallbackArgs(o[1], o[2], o[3], sync)) /\ ss_generateServerKey_response(i, o[1], o[2], o[3], sync)
    \/ \E i \in Awaiting("secretstore.js", "generateServerAndDocumentKey"), o \in HttpOutcomes, sync \in BOOLEAN :
          TwinAnswer(i, CallbackArgs(o[1], o[2], o[3], sync)) /\ ss_generateServerAndDocumentKey_response(i, o[1], o[2], o[3], sync)
    \/ \E i \in Awaiting("secretstore.js", "shadowRetrieveDocumentKey"), o \in HttpOutcomes, sync \in BOOLEAN :
          TwinAnswer(i, CallbackArgs(o[1], o[2], o[3], sync)) /\ ss_shadowRetrieveDocumentKey_response(i, o[1], o[2], o[3], sync)
    \/ \E i \in Awaiting("secretstore.js", "retrieveDocumentKey"), o \in HttpOutcomes, sync \in BOOLEAN :
          TwinAnswer(i, CallbackArgs(o[1], o[2], o[3], sync)) /\ ss_retrieveDocumentKey_response(i, o[1], o[2], o[3], sync)
    \/ \E i \in Awaiting("secretstore.js", "signSchnorr"), o \in HttpOutcomes, sync \in BOOLEAN :
          TwinAnswer(i, CallbackArgs(o[1], o[2], o[3], sync)) /\ ss_signSchnorr_response(i, o[1], o[2], o[3], sync)
    \/ \E i \in Awaiting("secretstore.js", "signEcdsa"), o \in HttpOutcomes, sync \in BOOLEAN :
          TwinAnswer(i, CallbackArgs(o[1], o[2], o[3], sync)) /\ ss_signEcdsa_response(i, o[1], o[2], o[3], sync)
    \/ \E i \in Awaiting("secretstore.js", "storeDocumentKey"), o \in HttpOutcomes, sync \in BOOLEAN :
          TwinAnswer(i, CallbackArgs(o[1], o[2], o[3], sync)) /\ ss_storeDocumentKey_response(i, o[1], o[2], o[3], sync)
    \/ \E i \in Awaiting("secretstore.js", "nodesSetChange"), o \in HttpOutcomes, sync \in BOOLEAN :
          TwinAnswer(i, CallbackArgs(o[1], o[2], o[3], sync)) /\ ss_nodesSetChange_response(i, o[1], o[2], o[3], sync)
    \/ \E account \in Accounts, pwd \in Passwords, hash \in Hashes, verbose \in Verboses :
          Len(calls) < 2 /\ rpc_signRawHash(account, pwd, hash, verbose) /\ TwinCalls'
    \/ \E account \in Accounts, pwd \in Passwords, serverKey \in HexValues, verbose \in Verboses :
          Len(calls) < 2 /\ rpc_generateDocumentKey(account, pwd, serverKey, verbose) /\ TwinCalls'
    \/ \E account \in Accounts, pwd \in Passwords, encryptedKey \in HexValues, hexDocument \in HexValues, verbose \in Verboses :
          Len(calls) < 2 /\ rpc_encrypt(account, pwd, encryptedKey, hexDocument, verbose) /\ TwinCalls'
    \/ \E account \in Accounts, pwd \in Passwords, encryptedKey \in HexValues, encryptedDocument \in HexValues, verbose \in Verboses :
          Len(calls) < 2 /\ rpc_decrypt(account, pwd, encryptedKey, encryptedDocument, verbose) /\ TwinCalls'
    \/ \E account \in Accounts, pwd \in Passwords, decryptedSecret \in HexValues, commonPoint \in HexValues, decryptShadows \in HexLists, encryptedDocument \in HexValues, verbose \in Verboses :
          Len(calls) < 2 /\ rpc_shadowDecrypt(account, pwd, decryptedSecret, commonPoint, decryptShadows, encryptedDocument, verbose) /\ TwinCalls'
    \/ \E nodeIDs \in NodeIDLists, verbose \in Verboses :
          Len(calls) < 2 /\ rpc_serversSetHash(nodeIDs, verbose) /\ TwinCalls'
    \/ \E account \in Accounts, pwd \in Passwords, hash \in Hashes, verbose \in Verboses :
          Len(calls) < 2 /\ ss_signRawHash(account, pwd, hash, verbose) /\ TwinCalls'
    \/ \E account \in Accounts, pwd \in Passwords, serverKey \in HexValues, verbose \in Verboses :
          Len(calls) < 2 /\ ss_generateDocumentKey(account, pwd, serverKey, verbose) /\ TwinCalls'
    \/ \E account \in Accounts, pwd \in Passwords, encryptedKey \in HexValues, hexDocument \in HexValues, verbose \in Verboses :
          Len(calls) < 2 /\ ss_encrypt(account, pwd, encryptedKey, hexDocument, verbose) /\ TwinCalls'
    \/ \E account \in Accounts, pwd \in Passwords, encryptedKey \in HexValues, encryptedDocument \in HexValues, verbose \in Verboses :
          Len(calls) < 2 /\ ss_decrypt(account, pwd, encryptedKey, encryptedDocument, verbose) /\ TwinCalls'
    \/ \E account \in Accounts, pwd \in Passwords, decryptedSecret \in HexValues, commonPoint \in HexValues, decryptShadows \in HexLists, encryptedDocument \in HexValues, verbose \in Verboses :
          Len(calls) < 2 /\ ss_shadowDecrypt(account, pwd, decryptedSecret, commonPoint, decryptShadows, encryptedDocument, verbose) /\ TwinCalls'
    \/ \E nodeIDs \in NodeIDLists, verbose \in Verboses :
          Len(calls) < 2 /\ ss_serversSetHash(nodeIDs, verbose) /\ TwinCalls'
    \/ \E tx \in Transactions, verbose \in Verboses :
          Len(calls) < 2 /\ private_composePublicTx(tx, verbose) /\ TwinCalls'
    \/ \E rawData \in HexValues, validators \in HexLists, gasPrice \in GasPrices, verbose \in Verboses :
          Len(calls) < 2 /\ private_composeDeploymentTx(rawData, validators, gasPrice, verbose) /\ TwinCalls'
    \/ \E tx \in Transactions, verbose \in Verboses :
          Len(calls) < 2 /\ private_call(tx, verbose) /\ TwinCalls'
    \/ \E tx \in Transactions, verbose \in Verboses :
          Len(calls) < 2 /\ private_sendTransaction(tx, verbose) /\ TwinCalls'
    \/ \E address \in HexValues, verbose \in Verboses :
          Len(calls) < 2 /\ private_contractKey(address, verbose) /\ TwinCalls'
    \/ \E tx \in Transactions, verbose \in Verboses :
          Len(calls) < 2 /\ part001_composePublicTx(tx, verbose) /\ TwinCalls'
    \/ \E rawData \in HexValues, validators \in HexLists, gasPrice \in GasPrices, verbose \in Verboses :
          Len(calls) < 2 /\ part001_composeDeploymentTx(rawData, validators, gasPrice, verbose) /\ TwinCalls'
    \/ \E tx \in Transactions, verbose \in Verboses :
          Len(calls) < 2 /\ part001_call(tx, verbose) /\ TwinCalls'
    \/ \E tx \in Transactions, verbose \in Verboses :
          Len(calls) < 2 /\ part001_send(tx, verbose) /\ TwinCalls'
    \/ \E address \in HexValues, verbose \in Verboses :
          Len(calls) < 2 /\ part001_contractKey(address, verbose) /\ TwinCalls'
    \/ \E i \in Awaiting("unnamed/part_000", "signRawHash"), o \in RpcOutcomes, sync \in BOOLEAN :
          TwinAnswer(i, RpcCallbackArgs(o[1], o[2], sync)) /\ rpc_signRawHash_response(i, o[1], o[2], sync)
    \/ \E i \in Awaiting("unnamed/part_000", "generateDocumentKey"), o \in RpcOutcomes, sync \in BOOLEAN :
          TwinAnswer(i, RpcCallbackArgs(o[1], o[2], sync)) /\ rpc_generateDocumentKey_response(i, o[1], o[2], sync)
    \/ \E i \in Awaiting("unnamed/part_000", "encrypt"), o \in RpcOutcomes, sync \in BOOLEAN :
          TwinAnswer(i, RpcCallbackArgs(o[1], o[2], sync)) /\ rpc_encrypt_response(i, o[1], o[2], sync)
    \/ \E i \in Awaiting("unnamed/part_000", "decrypt"), o \in RpcOutcomes, sync \in BOOLEAN :
          TwinAnswer(i, RpcCallbackArgs(o[1], o[2], sync)) /\ rpc_decrypt_response(i, o[1], o[2], sync)
    \/ \E i \in Awaiting("unnamed/part_000", "shadowDecrypt"), o \in RpcOutcomes, sync \in BOOLEAN :
          TwinAnswer(i, RpcCallbackArgs(o[1], o[2], sync)) /\ rpc_shadowDecrypt_response(i, o[1], o[2], sync)
    \/ \E i \in Awaiting("unnamed/part_000", "serversSetHash"), o \in RpcOutcomes, sync \in BOOLEAN :
          TwinAnswer(i, RpcCallbackArgs(o[1], o[2], sync)) /\ rpc_serversSetHash_response(i, o[1], o[2], sync)
    \/ \E i \in Awaiting("secretstore.js", "signRawHash"), o \in RpcOutcomes, sync \in BOOLEAN :
          TwinAnswer(i, RpcCallbackArgs(o[1], o[2], sync)) /\ ss_signRawHash_response(i, o[1], o[2], sync)
    \/ \E i \in Awaiting("secretstore.js", "generateDocumentKey"), o \in RpcOutcomes, sync \in BOOLEAN :
          TwinAnswer(i, RpcCallbackArgs(o[1], o[2], sync)) /\ ss_generateDocumentKey_response(i, o[1], o[2], sync)
    \/ \E i \in Awaiting("secretstore.js", "encrypt"), o \in RpcOutcomes, sync \in BOOLEAN :
          TwinAnswer(i, RpcCallbackArgs(o[1], o[2], sync)) /\ ss_encrypt_response(i, o[1], o[2], sync)
    \/ \E i \in Awaiting("secretstore.js", "decrypt"), o \in RpcOutcomes, sync \in BOOLEAN :
          TwinAnswer(i, RpcCallbackArgs(o[1], o[2], sync)) /\ ss_decrypt_response(i, o[1], o[2], sync)
    \/ \E i \in Awaiting("secretstore.js", "shadowDecrypt"), o \in RpcOutcomes, sync \in BOOLEAN :
          TwinAnswer(i, RpcCallbackArgs(o[1], o[2], sync)) /\ ss_shadowDecrypt_response(i, o[1], o[2], sync)
    \/ \E i \in Awaiting("secretstore.js", "serversSetHash"), o \in RpcOutcomes, sync \in BOOLEAN :
          TwinAnswer(i, RpcCallbackArgs(o[1], o[2], sync)) /\ ss_serversSetHash_response(i, o[1], o[2], sync)
    \/ \E i \in Awaiting("private/private.js", "composePublicTx"), o \in RpcOutcomes, sync \in BOOLEAN :
          TwinAnswer(i, RpcCallbackArgs(o[1], o[2], sync)) /\ private_composePublicTx_response(i, o[1], o[2], sync)
    \/ \E i \in Awaiting("private/private.js", "composeDeploymentTx"), o \in RpcOutcomes, sync \in BOOLEAN :
          TwinAnswer(i, RpcCallbackArgs(o[1], o[2], sync)) /\ private_composeDeploymentTx_response(i, o[1], o[2], sync)
    \/ \E i \in Awaiting("private/private.js", "call"), o \in RpcOutcomes, sync \in BOOLEAN :
          TwinAnswer(i, RpcCallbackArgs(o[1], o[2], sync)) /\ private_call_response(i, o[1], o[2], sync)
    \/ \E i \in Awaiting("private/private.js", "sendTransaction"), o \in RpcOutcomes, sync \in BOOLEAN :
          TwinAnswer(i, RpcCallbackArgs(o[1], o[2], sync)) /\ private_sendTransaction_response(i, o[1], o[2], sync)
    \/ \E i \in Awaiting("private/private.js", "contractKey"), o \in RpcOutcomes, sync \in BOOLEAN :
          TwinAnswer(i, RpcCallbackArgs(o[1], o[2], sync)) /\ private_contractKey_response(i, o[1], o[2], sync)
    \/ \E i \in Awaiting("unnamed/part_001", "composePublicTx"), o \in RpcOutcomes, sync \in BOOLEAN :
          TwinAnswer(i, RpcCallbackArgs(o[1], o[2], sync)) /\ part001_composePublicTx_response(i, o[1], o[2], sync)
    \/ \E i \in Awaiting("unnamed/part_001", "composeDeploymentTx"), o \in RpcOutcomes, sync \in BOOLEAN :
          TwinAnswer(i, RpcCallbackArgs(o[1], o[2], sync)) /\ part001_composeDeploymentTx_response(i, o[1], o[2], sync)
    \/ \E i \in Awaiting("unnamed/part_001", "call"), o \in RpcOutcomes, sync \in BOOLEAN :
          TwinAnswer(i, RpcCallbackArgs(o[1], o[2], sync)) /\ part001_call_response(i, o[1], o[2], sync)
    \/ \E i \in Awaiting("unnamed/part_001", "send"), o \in RpcOutcomes, sync \in BOOLEAN :
          TwinAnswer(i, RpcCallbackArgs(o[1], o[2], sync)) /\ part001_send_response(i, o[1], o[2], sync)
    \/ \E i \in Awaiting("unnamed/part_001", "contractKey"), o \in RpcOutcomes, sync \in BOOLEAN :
          TwinAnswer(i, RpcCallbackArgs(o[1], o[2], sync)) /\ part001_contractKey_response(i, o[1], o[2], sync)

SpecTwin == Init /\ [][NextTwin]_vars

(* ------------------- the functions of utils.js alone -------------------- *)

\* the arguments the functions of utils.js are applied to: every string of
\* at most MaxStrLen characters over a digit, the letter x, a letter, a
\* double quote and a line feed, the strings of the documentation, a
\* string with the prefix twice, and values that are not strings
UtilsInputs ==
    {Str(s) : s \in StringsUpTo({"0", "x", "a", DQ, LF}, MaxStrLen)}
        \cup {Str(<<"0", "x", "A", "B", "C">>), Str(<<"A", "B", "C">>),
              Str(<<DQ, "f", "o", "o", DQ>>), Str(<<DQ, "a", DQ, "b", DQ>>),
              Str(<<"0", "x", "0", "x", "a", "a">>)}
        \cup {Undefined, Null, Num(0), Num(12), Bool(TRUE), Bool(FALSE),
              Arr(<< >>), Arr(<<Str(<<"0", "x", "a">>), Num(1)>>), Obj(<< >>)}

\* utils.js: remove0x(val) is called and returns
utils_remove0x(val) ==
    /\ calls' = Append(calls, [file |-> "utils.js", op |-> "remove0x", args |-> [val |-> val],
                               state |-> "returned", value |-> Str(remove0x(val))])
    /\ UNCHANGED console

\* utils.js: add0x(str) is called and returns or raises
utils_add0x(str) ==
    LET r == add0x(str)
    IN /\ calls' = Append(calls, [file |-> "utils.js", op |-> "add0x", args |-> [str |-> str],
                                  state |-> IF r.ok THEN "returned" ELSE "threw",
                                  value |-> IF r.ok THEN r.val ELSE r.thrown])
       /\ UNCHANGED console

\* utils.js: removeEnclosingDQuotes(str) is called and returns or raises
utils_removeEnclosingDQuotes(str) ==
    LET r == removeEnclosingDQuotes(str)
    IN /\ calls' = Append(calls, [file |-> "utils.js", op |-> "removeEnclosingDQuotes", args |-> [str |-> str],
                                  state |-> IF r.ok THEN "returned" ELSE "threw",
                                  value |-> IF r.ok THEN r.val ELSE r.thrown])
       /\ UNCHANGED console

NextUtils ==
    \/ \E val \in UtilsInputs : calls = << >> /\ utils_remove0x(val)
    \/ \E str \in UtilsInputs : calls = << >> /\ utils_add0x(str)
    \/ \E str \in UtilsInputs : calls = << >> /\ utils_removeEnclosingDQuotes(str)

SpecUtils == Init /\ [][NextUtils]_vars

(* ---------------------- several calls pending at once ------------------- *)

\* retrieveDocumentKey of secretstore/session.js and encrypt of
\* unnamed/part_000 are called up to MaxCalls times before, between and
\* after the callbacks of the earlier calls, and the transports invoke the
\* callbacks of the pending calls in any order
NextConcurrent ==
    LET httpOutcomes ==
            { <<ErrorObject(1), Undefined, Undefined>>,
              <<Null, Response(500, <<"I", "n", "t", "e", "r", "n", "a", "l", " ", "S", "e", "r", "v", "e", "r", " ", "E", "r", "r", "o", "r">>), Str(<< >>)>>,
              <<Null, Response(HTTP_OK, <<"O", "K">>), QuotedHexBody>> }
        rpcOutcomes ==
            { <<ErrorObject(2), Undefined>>,
              <<Null, Obj(<< Prop(<<"e", "r", "r", "o", "r">>, Obj(<< Prop(<<"c", "o", "d", "e">>, Num(-32000)) >>)) >>)>>,
              <<Null, Obj(<< Prop(<<"r", "e", "s", "u", "l", "t">>, Str(<<"0", "x", "5", "1">>)) >>)>> }
    IN \/ \E url \in Urls, serverKeyID \in ServerKeyIDs, verbose \in {Bool(TRUE), Bool(FALSE)} :
              Len(calls) < MaxCalls /\ retrieveDocumentKey(url, serverKeyID, Str(<<"b", "b">>), verbose)
       \/ \E account \in Accounts, pwd \in Passwords, hexDocument \in HexValues, verbose \in {Bool(TRUE), Bool(FALSE)} :
              Len(calls) < MaxCalls /\ rpc_encrypt(account, pwd, Str(<<"0", "x", "e", "1">>), hexDocument, verbose)
       \/ \E i \in Awaiting("secretstore/session.js", "retrieveDocumentKey"), o \in httpOutcomes, sync \in BOOLEAN :
              retrieveDocumentKey_response(i, o[1], o[2], o[3], sync)
       \/ \E i \in Awaiting("unnamed/part_000", "encrypt"), o \in rpcOutcomes, sync \in BOOLEAN :
              rpc_encrypt_response(i, o[1], o[2], sync)

SpecConcurrent == Init /\ [][NextConcurrent]_vars

(* ----------------------- encrypt, then decrypt -------------------------- *)

\* encrypt of unnamed/part_000 is called and answered by a node; the value
\* it resolved with is passed to decrypt and to shadowDecrypt, which the
\* node answers too.  The node of the tests: secretstore_encrypt seals the
\* document under the key, secretstore_decrypt opens what was sealed under
\* the key it is given, secretstore_shadowDecrypt what was sealed under the
\* key whose shadows it is given; both answer with an error otherwise.
NextRoundTrip ==
    LET Seal(k, d) == Str(<<"E", "(">> \o ToStringChars(k) \o <<",">> \o ToStringChars(d) \o <<")">>)
        Shadows(k) == <<Str(ToStringChars(k) \o <<"1">>), Str(ToStringChars(k) \o <<"2">>), Arr(<<Str(ToStringChars(k) \o <<"3">>)>>)>>
        Open(keys, sealed) ==
            IF \E k \in keys, d \in HexValues : Seal(k, d) = sealed
            THEN Obj(<< Prop(<<"r", "e", "s", "u", "l", "t">>, CHOOSE d \in HexValues : \E k \in keys : Seal(k, d) = sealed) >>)
            ELSE Obj(<< Prop(<<"e", "r", "r", "o", "r">>, Obj(<< Prop(<<"c", "o", "d", "e">>, Num(-32000)) >>)) >>)
        Node(envelope) ==
            LET method == GetProp(envelope, <<"m", "e", "t", "h", "o", "d">>)
                params == GetProp(envelope, <<"p", "a", "r", "a", "m", "s">>).items
            IN CASE method = Str(<<"s", "e", "c", "r", "e", "t", "s", "t", "o", "r", "e", "_", "e", "n", "c", "r", "y", "p", "t">>) -> Obj(<< Prop(<<"r", "e", "s", "u", "l", "t">>, Seal(params[3], params[4])) >>)
                 [] method = Str(<<"s", "e", "c", "r", "e", "t", "s", "t", "o", "r", "e", "_", "d", "e", "c", "r", "y", "p", "t">>) -> Open({params[3]}, params[4])
                 [] method = Str(<<"s", "e", "c", "r", "e", "t", "s", "t", "o", "r", "e", "_", "s", "h", "a", "d", "o", "w", "D", "e", "c", "r", "y", "p", "t">>) ->
                        Open({k \in HexValues : Shadows(k) = <<params[3], params[4], params[5]>>}, params[6])
    IN \/ \E account \in Accounts, pwd \in Passwords, encryptedKey \in HexValues, hexDocument \in HexValues, verbose \in Verboses :
              calls = << >> /\ rpc_encrypt(account, pwd, encryptedKey, hexDocument, verbose)
       \/ \E i \in Awaiting("unnamed/part_000", "encrypt"), sync \in BOOLEAN :
              rpc_encrypt_response(i, Null, Node(calls[i].requests[1]), sync)
       \/ \E encryptedKey \in HexValues, verbose \in Verboses :
              /\ Len(calls) = 1
              /\ calls[1].state = "fulfilled"
              /\ rpc_decrypt(calls[1].args.account, calls[1].args.pwd, encryptedKey, calls[1].value, verbose)
       \/ \E i \in Awaiting("unnamed/part_000", "decrypt"), sync \in BOOLEAN :
              rpc_decrypt_response(i, Null, Node(calls[i].requests[1]), sync)
       \/ \E k \in HexValues, verbose \in Verboses :
              /\ Len(calls) = 1
              /\ calls[1].state = "fulfilled"
              /\ rpc_shadowDecrypt(calls[1].args.account, calls[1].args.pwd, Shadows(k)[1], Shadows(k)[2], Shadows(k)[3],
                                   calls[1].value, verbose)
       \/ \E i \in Awaiting("unnamed/part_000", "shadowDecrypt"), sync \in BOOLEAN :
              rpc_shadowDecrypt_response(i, Null, Node(calls[i].requests[1]), sync)

SpecRoundTrip == Init /\ [][NextRoundTrip]_vars

(* -------------------- a callback invoked more than once ----------------- *)

\* generateServerAndDocumentKey of secretstore/session.js or
\* generateDocumentKey of unnamed/part_000 is called once, and the transport
\* invokes the callback it was given up to MaxCallbacks times, each time
\* with any outcome
NextRepeat ==
    LET httpOutcomes ==
            { <<ErrorObject(1), Undefined, Undefined>>,
              <<Null, Response(500, <<"I", "n", "t", "e", "r", "n", "a", "l", " ", "S", "e", "r", "v", "e", "r", " ", "E", "r", "r", "o", "r">>), Str(<< >>)>>,
              <<Null, Response(HTTP_OK, <<"O", "K">>), QuotedHexBody>> }
        rpcOutcomes ==
            { <<ErrorObject(2), Undefined>>,
              <<Null, Obj(<< Prop(<<"e", "r", "r", "o", "r">>, Obj(<< Prop(<<"c", "o", "d", "e">>, Num(-32000)) >>)) >>)>>,
              <<Null, Obj(<< Prop(<<"r", "e", "s", "u", "l", "t">>, Str(<<"0", "x", "5", "1">>)) >>)>> }
    IN \/ \E url \in Urls, serverKeyID \in ServerKeyIDs, signedServerKeyID \in SignedServerKeyIDs, threshold \in Thresholds, verbose \in Verboses :
              calls = << >> /\ generateServerAndDocumentKey(url, serverKeyID, signedServerKeyID, threshold, verbose)
       \/ \E account \in Accounts, pwd \in Passwords, serverKey \in HexValues, verbose \in Verboses :
              calls = << >> /\ rpc_generateDocumentKey(account, pwd, serverKey, verbose)
       \/ \E i \in Awaiting("secretstore/session.js", "generateServerAndDocumentKey"), o \in httpOutcomes, sync \in BOOLEAN :
              generateServerAndDocumentKey_response(i, o[1], o[2], o[3], sync)
       \/ \E i \in Awaiting("unnamed/part_000", "generateDocumentKey"), o \in rpcOutcomes, sync \in BOOLEAN :
              rpc_generateDocumentKey_response(i, o[1], o[2], sync)
       \/ \E i \in DOMAIN calls :
              /\ ~calls[i].awaiting
              /\ calls[i].delivered # << >>
              /\ Len(calls[i].delivered) < MaxCallbacks
              /\ calls' = [calls EXCEPT ![i].awaiting = TRUE]
              /\ UNCHANGED console

SpecRepeat == Init /\ [][NextRepeat]_vars

(* ------------------------ the two copies of a function ------------------ *)

\* a function of secretstore/session.js or of unnamed/part_000 is called,
\* then its copy in secretstore.js with the same arguments, and the
\* transport invokes both callbacks with the same arguments
NextCopies ==
    LET SecondIsCopy ==
            /\ calls[2].file = "secretstore.js"
            /\ calls[1].file # "secretstore.js"
            /\ calls[2].op = calls[1].op
            /\ calls[2].args = calls[1].args
            /\ calls[2].verbose = calls[1].verbose
    IN \/ \E url \in Urls, serverKeyID \in ServerKeyIDs, signedServerKeyID \in SignedServerKeyIDs, threshold \in Thresholds, verbose \in Verboses :
             calls = << >> /\ generateServerKey(url, serverKeyID, signedServerKeyID, threshold, verbose)
       \/ \E url \in Urls, serverKeyID \in ServerKeyIDs, signedServerKeyID \in SignedServerKeyIDs, threshold \in Thresholds, verbose \in Verboses :
             calls = << >> /\ generateServerAndDocumentKey(url, serverKeyID, signedServerKeyID, threshold, verbose)
       \/ \E url \in Urls, serverKeyID \in ServerKeyIDs, signedServerKeyID \in SignedServerKeyIDs, verbose \in Verboses :
             calls = << >> /\ shadowRetrieveDocumentKey(url, serverKeyID, signedServerKeyID, verbose)
       \/ \E url \in Urls, serverKeyID \in ServerKeyIDs, signedServerKeyID \in SignedServerKeyIDs, verbose \in Verboses :
             calls = << >> /\ retrieveDocumentKey(url, serverKeyID, signedServerKeyID, verbose)
       \/ \E url \in Urls, serverKeyID \in ServerKeyIDs, signedServerKeyID \in SignedServerKeyIDs, messageHash \in MessageHashes, verbose \in Verboses :
             calls = << >> /\ signSchnorr(url, serverKeyID, signedServerKeyID, messageHash, verbose)
       \/ \E url \in Urls, serverKeyID \in ServerKeyIDs, signedServerKeyID \in SignedServerKeyIDs, messageHash \in MessageHashes, verbose \in Verboses :
             calls = << >> /\ signEcdsa(url, serverKeyID, signedServerKeyID, messageHash, verbose)
       \/ \E url \in Urls, serverKeyID \in ServerKeyIDs, signedServerKeyID \in SignedServerKeyIDs, commonPoint \in CommonPoints, encryptedPoint \in EncryptedPoints, verbose \in Verboses :
             calls = << >> /\ storeDocumentKey(url, serverKeyID, signedServerKeyID, commonPoint, encryptedPoint, verbose)
       \/ \E url \in Urls, nodeIDsNewSet \in NodeIDLists, signatureOldSet \in SignaturesOldSet, signatureNewSet \in SignaturesNewSet, verbose \in Verboses :
             calls = << >> /\ nodesSetChange(url, nodeIDsNewSet, signatureOldSet, signatureNewSet, verbose)
       \/ \E url \in Urls, serverKeyID \in ServerKeyIDs, signedServerKeyID \in SignedServerKeyIDs, threshold \in Thresholds, verbose \in Verboses :
             Len(calls) = 1 /\ ss_generateServerKey(url, serverKeyID, signedServerKeyID, threshold, verbose) /\ SecondIsCopy'
       \/ \E url \in Urls, serverKeyID \in ServerKeyIDs, signedServerKeyID \in SignedServerKeyIDs, threshold \in Thresholds, verbose \in Verboses :
             Len(calls) = 1 /\ ss_generateServerAndDocumentKey(url, serverKeyID, signedServerKeyID, threshold, verbose) /\ SecondIsCopy'
       \/ \E url \in Urls, serverKeyID \in ServerKeyIDs, signedServerKeyID \in SignedServerKeyIDs, verbose \in Verboses :
             Len(calls) = 1 /\ ss_shadowRetrieveDocumentKey(url, serverKeyID, signedServerKeyID, verbose) /\ SecondIsCopy'
       \/ \E url \in Urls, serverKeyID \in ServerKeyIDs, signedServerKeyID \in SignedServerKeyIDs, verbose \in Verboses :
             Len(calls) = 1 /\ ss_retrieveDocumentKey(url, serverKeyID, signedServerKeyID, verbose) /\ SecondIsCopy'
       \/ \E url \in Urls, serverKeyID \in ServerKeyIDs, signedServerKeyID \in SignedServerKeyIDs, messageHash \in MessageHashes, verbose \in Verboses :
             Len(calls) = 1 /\ ss_signSchnorr(url, serverKeyID, signedServerKeyID, messageHash, verbose) /\ SecondIsCopy'
       \/ \E url \in Urls, serverKeyID \in ServerKeyIDs, signedServerKeyID \in SignedServerKeyIDs, messageHash \in MessageHashes, verbose \in Verboses :
             Len(calls) = 1 /\ ss_signEcdsa(url, serverKeyID, signedServerKeyID, messageHash, verbose) /\ SecondIsCopy'
       \/ \E url \in Urls, serverKeyID \in ServerKeyIDs, signedServerKeyID \in SignedServerKeyIDs, commonPoint \in CommonPoints, encryptedPoint \in EncryptedPoints, verbose \in Verboses :
             Len(calls) = 1 /\ ss_storeDocumentKey(url, serverKeyID, signedServerKeyID, commonPoint, encryptedPoint, verbose) /\ SecondIsCopy'
       \/ \E url \in Urls, nodeIDsNewSet \in NodeIDLists, signatureOldSet \in SignaturesOldSet, signatureNewSet \in SignaturesNewSet, verbose \in Verboses :
             Len(calls) = 1 /\ ss_nodesSetChange(url, nodeIDsNewSet, signatureOldSet, signatureNewSet, verbose) /\ SecondIsCopy'
       \/ \E i \in Awaiting("secretstore/session.js", "generateServerKey"), o \in HttpOutcomes, sync \in BOOLEAN :
             TwinAnswer(i, CallbackArgs(o[1], o[2], o[3], sync)) /\ generateServerKey_response(i, o[1], o[2], o[3], sync)
       \/ \E i \in Awaiting("secretstore/session.js", "generateServerAndDocumentKey"), o \in HttpOutcomes, sync \in BOOLEAN :
             TwinAnswer(i, CallbackArgs(o[1], o[2], o[3], sync)) /\ generateServerAndDocumentKey_response(i, o[1], o[2], o[3], sync)
       \/ \E i \in Awaiting("secretstore/session.js", "shadowRetrieveDocumentKey"), o \in HttpOutcomes, sync \in BOOLEAN :
             TwinAnswer(i, CallbackArgs(o[1], o[2], o[3], sync)) /\ shadowRetrieveDocumentKey_response(i, o[1], o[2], o[3], sync)
       \/ \E i \in Awaiting("secretstore/session.js", "retrieveDocumentKey"), o \in HttpOutcomes, sync \in BOOLEAN :
             TwinAnswer(i, CallbackArgs(o[1], o[2], o[3], sync)) /\ retrieveDocumentKey_response(i, o[1], o[2], o[3], sync)
       \/ \E i \in Awaiting("secretstore/session.js", "signSchnorr"), o \in HttpOutcomes, sync \in BOOLEAN :
             TwinAnswer(i, CallbackArgs(o[1], o[2], o[3], sync)) /\ signSchnorr_response(i, o[1], o[2], o[3], sync)
       \/ \E i \in Awaiting("secretstore/session.js", "signEcdsa"), o \in HttpOutcomes, sync \in BOOLEAN :
             TwinAnswer(i, CallbackArgs(o[1], o[2], o[3], sync)) /\ signEcdsa_response(i, o[1], o[2], o[3], sync)
       \/ \E i \in Awaiting("secretstore/session.js", "storeDocumentKey"), o \in HttpOutcomes, sync \in BOOLEAN :
             TwinAnswer(i, CallbackArgs(o[1], o[2], o[3], sync)) /\ storeDocumentKey_response(i, o[1], o[2], o[3], sync)
       \/ \E i \in Awaiting("secretstore/session.js", "nodesSetChange"), o \in HttpOutcomes, sync \in BOOLEAN :
             TwinAnswer(i, CallbackArgs(o[1], o[2], o[3], sync)) /\ nodesSetChange_response(i, o[1], o[2], o[3], sync)
       \/ \E i \in Awaiting("secretstore.js", "generateServerKey"), o \in HttpOutcomes, sync \in BOOLEAN :
             TwinAnswer(i, CallbackArgs(o[1], o[2], o[3], sync)) /\ ss_generateServerKey_response(i, o[1], o[2], o[3], sync)
       \/ \E i \in Awaiting("secretstore.js", "generateServerAndDocumentKey"), o \in HttpOutcomes, sync \in BOOLEAN :
             TwinAnswer(i, CallbackArgs(o[1], o[2], o[3], sync)) /\ ss_generateServerAndDocumentKey_response(i, o[1], o[2], o[3], sync)
       \/ \E i \in Awaiting("secretstore.js", "shadowRetrieveDocumentKey"), o \in HttpOutcomes, sync \in BOOLEAN :
             TwinAnswer(i, CallbackArgs(o[1], o[2], o[3], sync)) /\ ss_shadowRetrieveDocumentKey_response(i, o[1], o[2], o[3], sync)
       \/ \E i \in Awaiting("secretstore.js", "retrieveDocumentKey"), o \in HttpOutcomes, sync \in BOOLEAN :
             TwinAnswer(i, CallbackArgs(o[1], o[2], o[3], sync)) /\ ss_retrieveDocumentKey_response(i, o[1], o[2], o[3], sync)
       \/ \E i \in Awaiting("secretstore.js", "signSchnorr"), o \in HttpOutcomes, sync \in BOOLEAN :
             TwinAnswer(i, CallbackArgs(o[1], o[2], o[3], sync)) /\ ss_signSchnorr_response(i, o[1], o[2], o[3], sync)
       \/ \E i \in Awaiting("secretstore.js", "signEcdsa"), o \in HttpOutcomes, sync \in BOOLEAN :
             TwinAnswer(i, CallbackArgs(o[1], o[2], o[3], sync)) /\ ss_signEcdsa_response(i, o[1], o[2], o[3], sync)
       \/ \E i \in Awaiting("secretstore.js", "storeDocumentKey"), o \in HttpOutcomes, sync \in BOOLEAN :
             TwinAnswer(i, CallbackArgs(o[1], o[2], o[3], sync)) /\ ss_storeDocumentKey_response(i, o[1], o[2], o[3], sync)
       \/ \E i \in Awaiting("secretstore.js", "nodesSetChange"), o \in HttpOutcomes, sync \in BOOLEAN :
             TwinAnswer(i, CallbackArgs(o[1], o[2], o[3], sync)) /\ ss_nodesSetChange_response(i, o[1], o[2], o[3], sync)
       \/ \E account \in Accounts, pwd \in Passwords, hash \in Hashes, verbose \in Verboses :
             calls = << >> /\ rpc_signRawHash(account, pwd, hash, verbose)
       \/ \E account \in Accounts, pwd \in Passwords, serverKey \in HexValues, verbose \in Verboses :
             calls = << >> /\ rpc_generateDocumentKey(account, pwd, serverKey, verbose)
       \/ \E account \in Accounts, pwd \in Passwords, encryptedKey \in HexValues, hexDocument \in HexValues, verbose \in Verboses :
             calls = << >> /\ rpc_encrypt(account, pwd, encryptedKey, hexDocument, verbose)
       \/ \E account \in Accounts, pwd \in Passwords, encryptedKey \in HexValues, encryptedDocument \in HexValues, verbose \in Verboses :
             calls = << >> /\ rpc_decrypt(account, pwd, encryptedKey, encryptedDocument, verbose)
       \/ \E account \in Accounts, pwd \in Passwords, decryptedSecret \in HexValues, commonPoint \in HexValues, decryptShadows \in HexLists, encryptedDocument \in HexValues, verbose \in Verboses :
             calls = << >> /\ rpc_shadowDecrypt(account, pwd, decryptedSecret, commonPoint, decryptShadows, encryptedDocument, verbose)
       \/ \E nodeIDs \in NodeIDLists, verbose \in Verboses :
             calls = << >> /\ rpc_serversSetHash(nodeIDs, verbose)
       \/ \E account \in Accounts, pwd \in Passwords, hash \in Hashes, verbose \in Verboses :
             Len(calls) = 1 /\ ss_signRawHash(account, pwd, hash, verbose) /\ SecondIsCopy'
       \/ \E account \in Accounts, pwd \in Passwords, serverKey \in HexValues, verbose \in Verboses :
             Len(calls) = 1 /\ ss_generateDocumentKey(account, pwd, serverKey, verbose) /\ SecondIsCopy'
       \/ \E account \in Accounts, pwd \in Passwords, encryptedKey \in HexValues, hexDocument \in HexValues, verbose \in Verboses :
             Len(calls) = 1 /\ ss_encrypt(account, pwd, encryptedKey, hexDocument, verbose) /\ SecondIsCopy'
       \/ \E account \in Accounts, pwd \in Passwords, encryptedKey \in HexValues, encryptedDocument \in HexValues, verbose \in Verboses :
             Len(calls) = 1 /\ ss_decrypt(account, pwd, encryptedKey, encryptedDocument, verbose) /\ SecondIsCopy'
       \/ \E account \in Accounts, pwd \in Passwords, decryptedSecret \in HexValues, commonPoint \in HexValues, decryptShadows \in HexLists, encryptedDocument \in HexValues, verbose \in Verboses :
             Len(calls) = 1 /\ ss_shadowDecrypt(account, pwd, decryptedSecret, commonPoint, decryptShadows, encryptedDocument, verbose) /\ SecondIsCopy'
       \/ \E nodeIDs \in NodeIDLists, verbose \in Verboses :
             Len(calls) = 1 /\ ss_serversSetHash(nodeIDs, verbose) /\ SecondIsCopy'
       \/ \E i \in Awaiting("unnamed/part_000", "signRawHash"), o \in RpcOutcomes, sync \in BOOLEAN :
             TwinAnswer(i, RpcCallbackArgs(o[1], o[2], sync)) /\ rpc_signRawHash_response(i, o[1], o[2], sync)
       \/ \E i \in Awaiting("unnamed/part_000", "generateDocumentKey"), o \in RpcOutcomes, sync \in BOOLEAN :
             TwinAnswer(i, RpcCallbackArgs(o[1], o[2], sync)) /\ rpc_generateDocumentKey_response(i, o[1], o[2], sync)
       \/ \E i \in Awaiting("unnamed/part_000", "encrypt"), o \in RpcOutcomes, sync \in BOOLEAN :
             TwinAnswer(i, RpcCallbackArgs(o[1], o[2], sync)) /\ rpc_encrypt_response(i, o[1], o[2], sync)
       \/ \E i \in Awaiting("unnamed/part_000", "decrypt"), o \in RpcOutcomes, sync \in BOOLEAN :
             TwinAnswer(i, RpcCallbackArgs(o[1], o[2], sync)) /\ rpc_decrypt_response(i, o[1], o[2], sync)
       \/ \E i \in Awaiting("unnamed/part_000", "shadowDecrypt"), o \in RpcOutcomes, sync \in BOOLEAN :
             TwinAnswer(i, RpcCallbackArgs(o[1], o[2], sync)) /\ rpc_shadowDecrypt_response(i, o[1], o[2], sync)
       \/ \E i \in Awaiting("unnamed/part_000", "serversSetHash"), o \in RpcOutcomes, sync \in BOOLEAN :
             TwinAnswer(i, RpcCallbackArgs(o[1], o[2], sync)) /\ rpc_serversSetHash_response(i, o[1], o[2], sync)
       \/ \E i \in Awaiting("secretstore.js", "signRawHash"), o \in RpcOutcomes, sync \in BOOLEAN :
             TwinAnswer(i, RpcCallbackArgs(o[1], o[2], sync)) /\ ss_signRawHash_response(i, o[1], o[2], sync)
       \/ \E i \in Awaiting("secretstore.js", "generateDocumentKey"), o \in RpcOutcomes, sync \in BOOLEAN :
             TwinAnswer(i, RpcCallbackArgs(o[1], o[2], sync)) /\ ss_generateDocumentKey_response(i, o[1], o[2], sync)
       \/ \E i \in Awaiting("secretstore.js", "encrypt"), o \in RpcOutcomes, sync \in BOOLEAN :
             TwinAnswer(i, RpcCallbackArgs(o[1], o[2], sync)) /\ ss_encrypt_response(i, o[1], o[2], sync)
       \/ \E i \in Awaiting("secretstore.js", "decrypt"), o \in RpcOutcomes, sync \in BOOLEAN :
             TwinAnswer(i, RpcCallbackArgs(o[1], o[2], sync)) /\ ss_decrypt_response(i, o[1], o[2], sync)
       \/ \E i \in Awaiting("secretstore.js", "shadowDecrypt"), o \in RpcOutcomes, sync \in BOOLEAN :
             TwinAnswer(i, RpcCallbackArgs(o[1], o[2], sync)) /\ ss_shadowDecrypt_response(i, o[1], o[2], sync)
       \/ \E i \in Awaiting("secretstore.js", "serversSetHash"), o \in RpcOutcomes, sync \in BOOLEAN :
             TwinAnswer(i, RpcCallbackArgs(o[1], o[2], sync)) /\ ss_serversSetHash_response(i, o[1], o[2], sync)

SpecCopies == Init /\ [][NextCopies]_vars

(* ============================== claims ================================= *)

SessionOps ==
    {"generateServerKey", "generateServerAndDocumentKey", "storeDocumentKey",
     "shadowRetrieveDocumentKey", "retrieveDocumentKey", "signSchnorr", "signEcdsa",
     "nodesSetChange"}
QuotedStringOps == SessionOps \ {"shadowRetrieveDocumentKey", "storeDocumentKey"}
RpcOps ==
    {"signRawHash", "generateDocumentKey", "encrypt", "decrypt", "shadowDecrypt",
     "serversSetHash", "composePublicTx", "composeDeploymentTx", "call", "send",
     "sendTransaction", "contractKey"}

IsSessionCall(c) == c.op \in SessionOps
IsRpcCall(c) == c.op \in RpcOps
\* the transport has invoked the callback of call c; Cb(c) are the arguments
CalledBack(c) == c.delivered # << >>
Cb(c) == c.delivered[1]
HasProp(o, k) == o.t = "object" /\ \E j \in 1..Len(o.props) : o.props[j].key = k

\* C1: for every HTTP session operation and every verbose (the default
\* included), a callback invoked with a connection error leaves the promise
\* rejected with that same error object, whatever response and body are.
C1_ConnectionErrorRejectsWithIt ==
    \A i \in DOMAIN calls :
        LET c == calls[i]
        IN (IsSessionCall(c) /\ CalledBack(c) /\ Truthy(Cb(c).error))
               => (c.state = "rejected" /\ c.value = Cb(c).error)

\* C2: for every JSON-RPC operation and every verbose, a callback invoked
\* with a non-empty error argument leaves the promise rejected with that same
\* error object, whatever the response argument contains.
C2_RpcTransportErrorRejectsWithIt ==
    \A i \in DOMAIN calls :
        LET c == calls[i]
        IN (IsRpcCall(c) /\ CalledBack(c) /\ Truthy(Cb(c).e))
               => (c.state = "rejected" /\ c.value = Cb(c).e)

\* C2 witness: a transport error arrived together with a response that holds
\* a result, for a call with verbose false
C2_Witness ==
    /\ calls # << >>
    /\ IsRpcCall(calls[1])
    /\ CalledBack(calls[1])
    /\ Cb(calls[1]).e = ErrorObject(2)
    /\ HasProp(Cb(calls[1]).r, <<"r", "e", "s", "u", "l", "t">>)
    /\ calls[1].verbose = Bool(FALSE)
    /\ calls[1].state = "rejected"
    /\ calls[1].value = ErrorObject(2)

\* C3: for every JSON-RPC operation, without a transport error and with a
\* response envelope that carries an error field, the promise is rejected
\* with exactly that error object (its code and message are the remote
\* node's); the result field is ignored.
C3_RpcErrorFieldRejectsWithIt ==
    \A i \in DOMAIN calls :
        LET c == calls[i]
        IN (IsRpcCall(c) /\ CalledBack(c) /\ ~Truthy(Cb(c).e) /\ HasProp(Cb(c).r, <<"e", "r", "r", "o", "r">>))
               => (c.state = "rejected" /\ c.value = GetProp(Cb(c).r, <<"e", "r", "r", "o", "r">>))

\* C3 witness: the envelope held {code: -32000, message: "x"} and a result
C3_Witness ==
    /\ calls # << >>
    /\ IsRpcCall(calls[1])
    /\ CalledBack(calls[1])
    /\ ~Truthy(Cb(calls[1]).e)
    /\ HasProp(Cb(calls[1]).r, <<"r", "e", "s", "u", "l", "t">>)
    /\ calls[1].state = "rejected"
    /\ calls[1].value.t = "object"
    /\ GetProp(calls[1].value, <<"c", "o", "d", "e">>) = Num(-32000)
    /\ GetProp(calls[1].value, <<"m", "e", "s", "s", "a", "g", "e">>) = Str(<<"x">>)

\* C4: for every JSON-RPC operation, without a transport error and with a
\* response envelope without an error field, the promise is resolved with
\* the result field itself, unmodified.
C4_RpcResultResolvesVerbatim ==
    \A i \in DOMAIN calls :
        LET c == calls[i]
        IN (IsRpcCall(c) /\ CalledBack(c) /\ ~Truthy(Cb(c).e)
                /\ Cb(c).r.t = "object" /\ ~HasProp(Cb(c).r, <<"e", "r", "r", "o", "r">>))
               => (c.state = "fulfilled" /\ c.value = GetProp(Cb(c).r, <<"r", "e", "s", "u", "l", "t">>))

\* C4 witness: composeDeploymentTx resolved with {receipt: {contractAddress:
\* "0xCC"}, transaction: "0xDEAD"}, both fields as the node sent them
C4_Witness ==
    /\ calls # << >>
    /\ calls[1].op = "composeDeploymentTx"
    /\ calls[1].state = "fulfilled"
    /\ calls[1].value.t = "object"
    /\ GetProp(GetProp(calls[1].value, <<"r", "e", "c", "e", "i", "p", "t">>), <<"c", "o", "n", "t", "r", "a", "c", "t", "A", "d", "d", "r", "e", "s", "s">>)
           = Str(<<"0", "x", "C", "C">>)
    /\ GetProp(calls[1].value, <<"t", "r", "a", "n", "s", "a", "c", "t", "i", "o", "n">>) = Str(<<"0", "x", "D", "E", "A", "D">>)

\* the classes of the session errors
SessionErrorNames == {"SecretStoreSessionError", "SSRequestError"}
IsSessionError(v) == v.t = "error" /\ v.name \in SessionErrorNames

\* the callback got no connection error and a response with another status
\* code than 200
FailedStatus(c) ==
    /\ IsSessionCall(c)
    /\ CalledBack(c)
    /\ ~Truthy(Cb(c).error)
    /\ Cb(c).response.t = "response"
    /\ Cb(c).response.statusCode # Num(200)

\* C5: for every HTTP session operation, without a connection error and with
\* a status code other than 200 (201, 204 and 500 included), the promise is
\* rejected with a session error whose response.statusCode is the delivered
\* status code; it is never resolved.
C5_Non200RejectsWithSessionError ==
    \A i \in DOMAIN calls :
        LET c == calls[i]
        IN FailedStatus(c)
               => /\ c.state = "rejected"
                  /\ IsSessionError(c.value)
                  /\ c.value.response.statusCode = Cb(c).response.statusCode

\* C5 witness: a 204 answer rejected the promise
C5_Witness ==
    /\ calls # << >>
    /\ FailedStatus(calls[1])
    /\ Cb(calls[1]).response.statusCode = Num(204)
    /\ calls[1].state = "rejected"
    /\ calls[1].value.response.statusCode = Num(204)

\* the callback got no connection error and a response with status 200
OkStatus(c) ==
    /\ IsSessionCall(c)
    /\ CalledBack(c)
    /\ ~Truthy(Cb(c).error)
    /\ Cb(c).response.t = "response"
    /\ Cb(c).response.statusCode = Num(200)

\* v is data of the session error err: one of its own fields or a field of
\* the response it holds
ErrorCarries(err, v) ==
    \/ v = err.message
    \/ v = err.response
    \/ v = err.response.statusCode
    \/ v = err.response.statusMessage

FailedResponseLines(c) ==
    << Str(<<"R", "e", "q", "u", "e", "s", "t", " ", "f", "a", "i", "l", "e", "d">>),
       Str(<<"S", "t", "a", "t", "u", "s", "C", "o", "d", "e", ":", " ">> \o Digits(Cb(c).response.statusCode.n)),
       Str(<<"S", "t", "a", "t", "u", "s", "M", "e", "s", "s", "a", "g", "e", ":", " ">> \o Cb(c).response.statusMessage.chars),
       Str(<<"B", "o", "d", "y", ":", " ">> \o Cb(c).body.chars),
       Str(<<"R", "e", "q", "u", "e", "s", "t", " ", "o", "p", "t", "i", "o", "n", "s", ":", " ">> \o JSONstringify(c.requests[1]).chars) >>

WithoutEnclosingQuotes(s) ==
    IF Len(s) >= 2 /\ s[1] = DQ /\ s[Len(s)] = DQ THEN SubSeq(s, 2, Len(s) - 1) ELSE s

\* C7: a quoted-string endpoint answered with status 200 resolves with the
\* body without its single enclosing pair of double quotes; a body without
\* enclosing quotes resolves unchanged.
C7_QuotedBodyUnwrapped ==
    \A i \in DOMAIN calls :
        LET c == calls[i]
        IN (OkStatus(c) /\ c.op \in QuotedStringOps)
               => /\ c.state = "fulfilled"
                  /\ c.value = Str(WithoutEnclosingQuotes(Cb(c).body.chars))

\* the body of the end-to-end scenario of shadow retrieval
ShadowScenarioBody ==
    Str(<<"{", DQ, "d", "e", "c", "r", "y", "p", "t", "e", "d", "_", "s", "e", "c", "r", "e", "t", DQ, ":", DQ, "0", "x", "1", DQ, ",", DQ, "c", "o", "m", "m", "o", "n", "_", "p", "o", "i", "n", "t", DQ, ":", DQ, "0", "x", "2", DQ, ",", DQ, "d", "e", "c", "r", "y", "p", "t", "_", "s", "h", "a", "d", "o", "w", "s", DQ, ":", "[", DQ, "0", "x", "3", DQ, "]", "}">>)

\* the keys of object o
Keys(o) == {o.props[j].key : j \in 1..Len(o.props)}

\* C8: shadowRetrieveDocumentKey answered with status 200 and the JSON text
\* of an object with keys decrypted_secret, common_point and decrypt_shadows
\* resolves with the parsed object: exactly those three keys, the same
\* values, decrypt_shadows a list in the same order; no quotes are stripped.
C8_ShadowBodyParsed ==
    \A i \in DOMAIN calls :
        LET c == calls[i]
        IN (OkStatus(c) /\ c.op = "shadowRetrieveDocumentKey")
               => \A o \in ShadowObjects :
                      Cb(c).body = JSONstringify(o)
                          => /\ c.state = "fulfilled"
                             /\ c.value = o
                             /\ Len(c.value.props) = 3
                             /\ Keys(c.value) = {<<"d", "e", "c", "r", "y", "p", "t", "e", "d", "_", "s", "e", "c", "r", "e", "t">>, <<"c", "o", "m", "m", "o", "n", "_", "p", "o", "i", "n", "t">>, <<"d", "e", "c", "r", "y", "p", "t", "_", "s", "h", "a", "d", "o", "w", "s">>}
                             /\ GetProp(c.value, <<"d", "e", "c", "r", "y", "p", "t", "_", "s", "h", "a", "d", "o", "w", "s">>).t = "array"

\* C8 witness: the scenario body was answered and parsed
C8_Witness ==
    /\ calls # << >>
    /\ calls[1].op = "shadowRetrieveDocumentKey"
    /\ OkStatus(calls[1])
    /\ Cb(calls[1]).body = ShadowScenarioBody
    /\ calls[1].state = "fulfilled"
    /\ GetProp(calls[1].value, <<"d", "e", "c", "r", "y", "p", "t", "e", "d", "_", "s", "e", "c", "r", "e", "t">>) = Str(<<"0", "x", "1">>)
    /\ GetProp(calls[1].value, <<"c", "o", "m", "m", "o", "n", "_", "p", "o", "i", "n", "t">>) = Str(<<"0", "x", "2">>)
    /\ GetProp(calls[1].value, <<"d", "e", "c", "r", "y", "p", "t", "_", "s", "h", "a", "d", "o", "w", "s">>) = Arr(<<Str(<<"0", "x", "3">>)>>)

\* C8 witness of the order: two shadows were answered, 0x4 before 0x3
C8_WitnessOrder ==
    /\ calls # << >>
    /\ calls[1].op = "shadowRetrieveDocumentKey"
    /\ OkStatus(calls[1])
    /\ calls[1].state = "fulfilled"
    /\ calls[1].value.t = "object"
    /\ GetProp(calls[1].value, <<"d", "e", "c", "r", "y", "p", "t", "_", "s", "h", "a", "d", "o", "w", "s">>)
           = Arr(<<Str(<<"0", "x", "4">>), Str(<<"0", "x", "3">>)>>)

\* C9: storeDocumentKey answered with status 200 resolves with the body
\* exactly as delivered: enclosing double quotes stay, and an empty body
\* resolves as the empty string.
C9_StoreDocumentKeyRawBody ==
    \A i \in DOMAIN calls :
        LET c == calls[i]
        IN (OkStatus(c) /\ c.op = "storeDocumentKey")
               => (c.state = "fulfilled" /\ c.value = Cb(c).body)

\* C9 witness: a body in double quotes resolved with its quotes
C9_Witness ==
    /\ calls # << >>
    /\ calls[1].op = "storeDocumentKey"
    /\ OkStatus(calls[1])
    /\ Cb(calls[1]).body = Str(<<DQ, "0", "x", "d", "e", "a", "d", "b", "e", "e", "f", DQ>>)
    /\ calls[1].state = "fulfilled"
    /\ calls[1].value = Str(<<DQ, "0", "x", "d", "e", "a", "d", "b", "e", "e", "f", DQ>>)

\* C9 witness of the empty body
C9_WitnessEmpty ==
    /\ calls # << >>
    /\ calls[1].op = "storeDocumentKey"
    /\ OkStatus(calls[1])
    /\ Cb(calls[1]).body = Str(<< >>)
    /\ calls[1].state = "fulfilled"
    /\ calls[1].value = Str(<< >>)

\* a hex parameter as a path segment: its text without the 0x prefix
Segment(v) ==
    IF Len(v.chars) >= 2 /\ v.chars[1] = "0" /\ v.chars[2] = "x"
    THEN SubSeq(v.chars, 3, Len(v.chars))
    ELSE v.chars

\* the decimal text of the naturals below 10
Decimal(n) == <<(<<"0", "1", "2", "3", "4", "5", "6", "7", "8", "9">>)[n + 1]>>

\* the paths of the spec table for the arguments a of operation op.  The
\* table does not say whether {hash} keeps its prefix: both are accepted here.
TablePaths(op, a) ==
    LET id == Segment(a.serverKeyID)
        sig == Segment(a.signedServerKeyID)
        sl == <<"/">>
    IN CASE op = "generateServerKey" ->
                {<<"/", "s", "h", "a", "d", "o", "w", "/">> \o id \o sl \o sig \o sl \o Decimal(a.threshold.n)}
         [] op = "generateServerAndDocumentKey" ->
                {sl \o id \o sl \o sig \o sl \o Decimal(a.threshold.n)}
         [] op = "storeDocumentKey" ->
                {<<"/", "s", "h", "a", "d", "o", "w", "/">> \o id \o sl \o sig \o sl \o Segment(a.commonPoint)
                     \o sl \o Segment(a.encryptedPoint)}
         [] op = "shadowRetrieveDocumentKey" -> {<<"/", "s", "h", "a", "d", "o", "w", "/">> \o id \o sl \o sig}
         [] op = "retrieveDocumentKey" -> {sl \o id \o sl \o sig}
         [] op = "signSchnorr" ->
                {<<"/", "s", "c", "h", "n", "o", "r", "r", "/">> \o id \o sl \o sig \o sl \o h :
                     h \in {a.messageHash.chars, Segment(a.messageHash)}}
         [] op = "signEcdsa" ->
                {<<"/", "e", "c", "d", "s", "a", "/">> \o id \o sl \o sig \o sl \o h :
                     h \in {a.messageHash.chars, Segment(a.messageHash)}}

TableMethod(op) ==
    IF op \in {"shadowRetrieveDocumentKey", "retrieveDocumentKey", "signSchnorr", "signEcdsa"}
    THEN <<"G", "E", "T">> ELSE <<"P", "O", "S", "T">>

\* the text of a list of strings without special characters as JSON
RECURSIVE QuotedItems(_)
QuotedItems(items) ==
    IF items = << >> THEN << >>
    ELSE <<DQ>> \o Head(items).chars \o <<DQ>>
             \o (IF Len(items) = 1 THEN << >> ELSE <<",">> \o QuotedItems(Tail(items)))
ListText(list) == <<"[">> \o QuotedItems(list.items) \o <<"]">>

C10_WitnessBody ==
    /\ calls # << >>
    /\ calls[1].op = "nodesSetChange"
    /\ calls[1].args.nodeIDsNewSet = Arr(<<Str(<<"0", "x", "n", "2">>), Str(<<"0", "x", "n", "1">>)>>)
    /\ GetProp(calls[1].requests[1], <<"b", "o", "d", "y">>) = Str(<<"[", DQ, "0", "x", "n", "2", DQ, ",", DQ, "0", "x", "n", "1", DQ, "]">>)
    /\ GetProp(calls[1].requests[1], <<"u", "r", "l">>)
           = Str(<<"h", "t", "t", "p", ":", "/", "/", "s", "s", "/", "a", "d", "m", "i", "n", "/", "s", "e", "r", "v", "e", "r", "s", "_", "s", "e", "t", "_", "c", "h", "a", "n", "g", "e", "/", "5", "1", "/", "5", "2">>)

\* the URL of the spec table for call c with every hex parameter unprefixed
StrippedUrl(c) ==
    LET a == c.args
        sl == <<"/">>
        shadow == <<"/", "s", "h", "a", "d", "o", "w", "/">>
        path ==
            CASE c.op = "generateServerKey" ->
                     shadow \o Segment(a.serverKeyID) \o sl \o Segment(a.signedServerKeyID)
                         \o sl \o Decimal(a.threshold.n)
              [] c.op = "generateServerAndDocumentKey" ->
                     sl \o Segment(a.serverKeyID) \o sl \o Segment(a.signedServerKeyID)
                         \o sl \o Decimal(a.threshold.n)
              [] c.op = "storeDocumentKey" ->
                     shadow \o Segment(a.serverKeyID) \o sl \o Segment(a.signedServerKeyID)
                         \o sl \o Segment(a.commonPoint) \o sl \o Segment(a.encryptedPoint)
              [] c.op = "shadowRetrieveDocumentKey" ->
                     shadow \o Segment(a.serverKeyID) \o sl \o Segment(a.signedServerKeyID)
              [] c.op = "retrieveDocumentKey" ->
                     sl \o Segment(a.serverKeyID) \o sl \o Segment(a.signedServerKeyID)
              [] c.op = "signSchnorr" ->
                     <<"/", "s", "c", "h", "n", "o", "r", "r", "/">> \o Segment(a.serverKeyID)
                         \o sl \o Segment(a.signedServerKeyID) \o sl \o Segment(a.messageHash)
              [] c.op = "signEcdsa" ->
                     <<"/", "e", "c", "d", "s", "a", "/">> \o Segment(a.serverKeyID)
                         \o sl \o Segment(a.signedServerKeyID) \o sl \o Segment(a.messageHash)
              [] c.op = "nodesSetChange" ->
                     <<"/", "a", "d", "m", "i", "n", "/", "s", "e", "r", "v", "e", "r", "s", "_", "s", "e", "t", "_", "c", "h", "a", "n", "g", "e", "/">>
                         \o Segment(a.signatureOldSet) \o sl \o Segment(a.signatureNewSet)
    IN Str(a.url.chars \o path)

\* C11: in the URL of every HTTP session operation, every path segment that
\* comes from a hex parameter (messageHash of signSchnorr and signEcdsa
\* included) is the parameter without its 0x prefix, so that a prefixed and
\* an unprefixed parameter give the same URL.
C11_HexSegmentsUnprefixed ==
    \A i \in DOMAIN calls :
        LET c == calls[i]
        IN IsSessionCall(c)
               => GetProp(c.requests[1], <<"u", "r", "l">>) = StrippedUrl(c)

\* both calls of the pair were called back (with the same arguments)
TwinsCalledBack ==
    /\ Len(calls) = 2
    /\ calls[1].args = calls[2].args
    /\ calls[1].verbose = Bool(TRUE)
    /\ calls[2].verbose = Bool(FALSE)
    /\ CalledBack(calls[1])
    /\ CalledBack(calls[2])
    /\ Cb(calls[1]) = Cb(calls[2])

\* C12: verbose never changes the outcome: the same call made with verbose
\* true and with verbose false, called back with the same transport
\* outcome, ends in the same promise state with the same value.
C12_VerboseKeepsOutcome ==
    TwinsCalledBack
        => /\ calls[1].state = calls[2].state
           /\ calls[1].value = calls[2].value


\* the callback of call c was handed a failure: a connection error, a
\* response whose status is not 200, or an envelope with an error member
FailingOutcome(c) ==
    /\ CalledBack(c)
    /\ IF IsSessionCall(c)
       THEN \/ Truthy(Cb(c).error)
            \/ /\ Cb(c).response.t \notin {"undefined", "null"}
               /\ LooseNotEquals(Cb(c).response.statusCode, Num(HTTP_OK))
       ELSE \/ Truthy(Cb(c).e)
            \/ /\ CanReadProps(Cb(c).r)
               /\ ReadProp(Cb(c).r, <<"e", "r", "r", "o", "r">>) # Undefined

\* C13: diagnostic logging can be switched off per call: for every facade
\* operation, a call made with verbose false writes nothing to the console
\* on any outcome, and a call made with verbose true (or without the
\* argument) writes to the console only on a failing outcome.
C13_VerboseGatesOutput ==
    \A i \in DOMAIN calls :
        LET c == calls[i]
        IN /\ c.verbose = Bool(FALSE) => console = << >>
           /\ console # << >> => FailingOutcome(c)

\* C14: every facade call hands exactly one request to the transport over
\* its whole life, for every argument value and every outcome: never zero,
\* and never a second one after its callback was invoked.
C14_ExactlyOneRequest ==
    \A i \in DOMAIN calls : Len(calls[i].requests) = 1

\* the promise of call c is in one of the three terminal states: fulfilled,
\* rejected with the error the transport gave the callback, or rejected with
\* the error the remote side reported (a session error or the error member
\* of the envelope)
Terminal(c) ==
    \/ c.state = "fulfilled"
    \/ /\ c.state = "rejected"
       /\ \/ c.value = (IF IsSessionCall(c) THEN Cb(c).error ELSE Cb(c).e)
          \/ IsSessionCall(c) /\ IsSessionError(c.value)
          \/ /\ IsRpcCall(c)
             /\ CanReadProps(Cb(c).r)
             /\ c.value = ReadProp(Cb(c).r, <<"e", "r", "r", "o", "r">>)

\* C15: every facade call whose callback the transport has invoked, with a
\* response or with a connection error, has left the pending state and is
\* in one of the three terminal states; no call is pending after its
\* callback ran.
C15_CallbackSettles ==
    \A i \in DOMAIN calls : CalledBack(calls[i]) => Terminal(calls[i])

\* C16: whenever the promise of a facade call is rejected, the value is the
\* connection error the transport gave the callback, the error member of
\* the JSON-RPC envelope, or a session error wrapping a response whose
\* status is not 200; no exception raised while the request is built or
\* the callback runs is the value of a rejection, for any arguments.
C16_ThreeRejectionKinds ==
    \A i \in DOMAIN calls :
        LET c == calls[i]
        IN c.state = "rejected"
               => /\ CalledBack(c)
                  /\ \/ c.value = (IF IsSessionCall(c) THEN Cb(c).error ELSE Cb(c).e)
                     \/ /\ IsSessionCall(c)
                        /\ FailedStatus(c)
                        /\ IsSessionError(c.value)
                     \/ /\ IsRpcCall(c)
                        /\ CanReadProps(Cb(c).r)
                        /\ c.value = ReadProp(Cb(c).r, <<"e", "r", "r", "o", "r">>)

\* the calls of function op of utils.js
UtilsCalls(op) == {i \in DOMAIN calls : calls[i].file = "utils.js" /\ calls[i].op = op}

\* C17: remove0x returns the text form of its input with the first two
\* characters removed when that text starts with 0x, the text unchanged
\* otherwise, and the empty string for null or absent input:
\* remove0x("0xABC") = "ABC", remove0x("ABC") = "ABC", remove0x(null) = "".
C17_Remove0xStripsPrefix ==
    \A i \in UtilsCalls("remove0x") :
        LET val == calls[i].args.val
            text == ToStringChars(val)
            out == calls[i].value
        IN /\ calls[i].state = "returned"
           /\ out.t = "string"
           /\ IF val.t \in {"undefined", "null"}
              THEN out.chars = << >>
              ELSE IF Len(text) >= 2 /\ text[1] = "0" /\ text[2] = "x"
              THEN text = <<"0", "x">> \o out.chars
              ELSE out.chars = text
           /\ val = Str(<<"0", "x", "A", "B", "C">>) => out = Str(<<"A", "B", "C">>)
           /\ val = Str(<<"A", "B", "C">>) => out = Str(<<"A", "B", "C">>)
           /\ val = Null => out = Str(<< >>)

\* remove0x("0xABC") returned "ABC"
C17_Witness ==
    \E i \in UtilsCalls("remove0x") :
        /\ calls[i].args.val = Str(<<"0", "x", "A", "B", "C">>)
        /\ calls[i].value = Str(<<"A", "B", "C">>)

\* remove0x(null) returned ""
C17_WitnessNull ==
    \E i \in UtilsCalls("remove0x") :
        /\ calls[i].args.val = Null
        /\ calls[i].value = Str(<< >>)

\* C18: add0x prepends 0x exactly when the string does not already start
\* with 0x, so the result always starts with 0x, and applying add0x to the
\* result gives the result again; add0x("ABC") = "0xABC" and
\* add0x("0xABC") = "0xABC".
C18_Add0xEnsuresPrefix ==
    \A i \in UtilsCalls("add0x") :
        LET str == calls[i].args.str
            out == calls[i].value
            prefixed == Len(str.chars) >= 2 /\ str.chars[1] = "0" /\ str.chars[2] = "x"
        IN str.t = "string"
               => /\ calls[i].state = "returned"
                  /\ out.t = "string"
                  /\ out.chars = IF prefixed THEN str.chars ELSE <<"0", "x">> \o str.chars
                  /\ Len(out.chars) >= 2 /\ out.chars[1] = "0" /\ out.chars[2] = "x"
                  /\ add0x(out) = [ok |-> TRUE, val |-> out]
                  /\ str = Str(<<"A", "B", "C">>) => out = Str(<<"0", "x", "A", "B", "C">>)
                  /\ str = Str(<<"0", "x", "A", "B", "C">>) => out = Str(<<"0", "x", "A", "B", "C">>)

\* add0x("ABC") returned "0xABC"
C18_Witness ==
    \E i \in UtilsCalls("add0x") :
        /\ calls[i].args.str = Str(<<"A", "B", "C">>)
        /\ calls[i].state = "returned"
        /\ calls[i].value = Str(<<"0", "x", "A", "B", "C">>)

\* add0x("0xABC") returned "0xABC"
C18_WitnessPrefixed ==
    \E i \in UtilsCalls("add0x") :
        /\ calls[i].args.str = Str(<<"0", "x", "A", "B", "C">>)
        /\ calls[i].state = "returned"
        /\ calls[i].value = Str(<<"0", "x", "A", "B", "C">>)

\* C19: removeEnclosingDQuotes returns the inner content of every string of
\* length at least 2 that begins and ends with a double quote, whatever
\* stands between them (further double quotes and line breaks included),
\* removing that one outer pair only: '"foo"' gives 'foo', '"a"b"' gives
\* 'a"b'; every other string is returned unchanged.
C19_OuterQuotesRemoved ==
    \A i \in UtilsCalls("removeEnclosingDQuotes") :
        LET str == calls[i].args.str
            out == calls[i].value
            n == Len(str.chars)
        IN str.t = "string"
               => /\ calls[i].state = "returned"
                  /\ out.t = "string"
                  /\ IF n >= 2 /\ str.chars[1] = DQ /\ str.chars[n] = DQ
                     THEN str.chars = <<DQ>> \o out.chars \o <<DQ>>
                     ELSE out = str

\* C20: remove0x, add0x and removeEnclosingDQuotes are total: for every
\* input value, null, absent and non-text values included, each returns a
\* string and raises no error.
C20_NormalizersTotal ==
    \A i \in DOMAIN calls :
        calls[i].file = "utils.js"
            => /\ calls[i].state = "returned"
               /\ calls[i].value.t = "string"

SecretStoreRpcOps ==
    {"signRawHash", "generateDocumentKey", "encrypt", "decrypt", "shadowDecrypt", "serversSetHash"}

\* the method of the table for a Secret Store RPC operation
TableRpcMethod(c) ==
    CASE c.op = "signRawHash" -> <<"s", "e", "c", "r", "e", "t", "s", "t", "o", "r", "e", "_", "s", "i", "g", "n", "R", "a", "w", "H", "a", "s", "h">>
      [] c.op = "generateDocumentKey" -> <<"s", "e", "c", "r", "e", "t", "s", "t", "o", "r", "e", "_", "g", "e", "n", "e", "r", "a", "t", "e", "D", "o", "c", "u", "m", "e", "n", "t", "K", "e", "y">>
      [] c.op = "encrypt" -> <<"s", "e", "c", "r", "e", "t", "s", "t", "o", "r", "e", "_", "e", "n", "c", "r", "y", "p", "t">>
      [] c.op = "decrypt" -> <<"s", "e", "c", "r", "e", "t", "s", "t", "o", "r", "e", "_", "d", "e", "c", "r", "y", "p", "t">>
      [] c.op = "shadowDecrypt" -> <<"s", "e", "c", "r", "e", "t", "s", "t", "o", "r", "e", "_", "s", "h", "a", "d", "o", "w", "D", "e", "c", "r", "y", "p", "t">>
      [] c.op = "serversSetHash" -> <<"s", "e", "c", "r", "e", "t", "s", "t", "o", "r", "e", "_", "s", "e", "r", "v", "e", "r", "s", "S", "e", "t", "H", "a", "s", "h">>

\* a hash with its 0x prefix
Prefixed(h) ==
    IF h.t = "string" /\ (Len(h.chars) < 2 \/ SubSeq(h.chars, 1, 2) # <<"0", "x">>)
    THEN Str(<<"0", "x">> \o h.chars)
    ELSE h

\* the parameter list of the table for a Secret Store RPC operation
TableRpcParams(c) ==
    LET a == c.args
    IN CASE c.op = "signRawHash" -> <<a.account, a.pwd, Prefixed(a.hash)>>
         [] c.op = "generateDocumentKey" -> <<a.account, a.pwd, a.serverKey>>
         [] c.op = "encrypt" -> <<a.account, a.pwd, a.encryptedKey, a.hexDocument>>
         [] c.op = "decrypt" -> <<a.account, a.pwd, a.encryptedKey, a.encryptedDocument>>
         [] c.op = "shadowDecrypt" ->
                <<a.account, a.pwd, a.decryptedSecret, a.commonPoint, a.decryptShadows, a.encryptedDocument>>
         [] c.op = "serversSetHash" -> <<a.nodeIDs>>

\* C21: each Secret Store RPC operation sends one envelope with jsonrpc
\* "2.0", the same fixed id on every call, and the method and the parameter
\* list of the table, in that order and otherwise unmodified.
C21_EnvelopesFollowTable ==
    \A i \in DOMAIN calls :
        LET c == calls[i]
        IN c.op \in SecretStoreRpcOps
               => c.requests =
                      << [t |-> "object",
                          props |-> << [key |-> <<"j", "s", "o", "n", "r", "p", "c">>, val |-> [t |-> "string", chars |-> <<"2", ".", "0">>]],
                                       [key |-> <<"m", "e", "t", "h", "o", "d">>, val |-> [t |-> "string", chars |-> TableRpcMethod(c)]],
                                       [key |-> <<"p", "a", "r", "a", "m", "s">>, val |-> [t |-> "array", items |-> TableRpcParams(c)]],
                                       [key |-> <<"i", "d">>, val |-> [t |-> "number", n |-> 1]] >>] >>


\* the characters of a hash after its 0x prefix, if it has one
Bare(h) ==
    IF Len(h.chars) >= 2 /\ h.chars[1] = "0" /\ h.chars[2] = "x"
    THEN SubSeq(h.chars, 3, Len(h.chars))
    ELSE h.chars

\* C22: signRawHash always sends the hash with a 0x prefix: the envelope it
\* sends for a hash h without the prefix and the one it sends for "0x" + h
\* are identical, the third parameter being "0x" followed by the
\* characters of h.
C22_SignRawHashSendsPrefixed ==
    \A i \in DOMAIN calls :
        LET c == calls[i]
        IN (c.op = "signRawHash" /\ c.args.hash.t = "string")
               => /\ Len(c.requests) = 1
                  /\ GetProp(c.requests[1], <<"m", "e", "t", "h", "o", "d">>) = Str(<<"s", "e", "c", "r", "e", "t", "s", "t", "o", "r", "e", "_", "s", "i", "g", "n", "R", "a", "w", "H", "a", "s", "h">>)
                  /\ GetProp(c.requests[1], <<"p", "a", "r", "a", "m", "s">>)
                         = Arr(<<c.args.account, c.args.pwd, Str(<<"0", "x">> \o Bare(c.args.hash))>>)

\* signRawHash was called with the hash "aa" and sent "0xaa"
C22_Witness ==
    \E i \in DOMAIN calls :
        /\ calls[i].op = "signRawHash"
        /\ calls[i].args.hash = Str(<<"a", "a">>)
        /\ Len(calls[i].requests) = 1
        /\ GetProp(calls[i].requests[1], <<"p", "a", "r", "a", "m", "s">>).items[3] = Str(<<"0", "x", "a", "a">>)

\* signRawHash was called with the hash "0xaa" and sent "0xaa"
C22_WitnessPrefixed ==
    \E i \in DOMAIN calls :
        /\ calls[i].op = "signRawHash"
        /\ calls[i].args.hash = Str(<<"0", "x", "a", "a">>)
        /\ Len(calls[i].requests) = 1
        /\ GetProp(calls[i].requests[1], <<"p", "a", "r", "a", "m", "s">>).items[3] = Str(<<"0", "x", "a", "a">>)

PrivateOps == {"composePublicTx", "composeDeploymentTx", "call", "send", "sendTransaction", "contractKey"}

\* the method of the table for a Private Transaction operation
TablePrivateMethod(c) ==
    CASE c.op = "composePublicTx" -> <<"p", "a", "r", "i", "t", "y", "_", "c", "o", "m", "p", "o", "s", "e", "T", "r", "a", "n", "s", "a", "c", "t", "i", "o", "n">>
      [] c.op = "composeDeploymentTx" -> <<"p", "r", "i", "v", "a", "t", "e", "_", "c", "o", "m", "p", "o", "s", "e", "D", "e", "p", "l", "o", "y", "m", "e", "n", "t", "T", "r", "a", "n", "s", "a", "c", "t", "i", "o", "n">>
      [] c.op = "call" -> <<"p", "r", "i", "v", "a", "t", "e", "_", "c", "a", "l", "l">>
      [] c.op \in {"send", "sendTransaction"} -> <<"p", "r", "i", "v", "a", "t", "e", "_", "s", "e", "n", "d", "T", "r", "a", "n", "s", "a", "c", "t", "i", "o", "n">>
      [] c.op = "contractKey" -> <<"p", "r", "i", "v", "a", "t", "e", "_", "c", "o", "n", "t", "r", "a", "c", "t", "K", "e", "y">>

\* the parameter list of the table for a Private Transaction operation
TablePrivateParams(c) ==
    LET a == c.args
        latest == [t |-> "string", chars |-> <<"l", "a", "t", "e", "s", "t">>]
    IN CASE c.op = "composePublicTx" -> <<a.tx>>
         [] c.op = "composeDeploymentTx" ->
                <<latest, a.rawData, a.validators,
                  IF a.gasPrice = [t |-> "undefined"] THEN [t |-> "string", chars |-> <<"0", "x", "0">>] ELSE a.gasPrice>>
         [] c.op = "call" -> <<latest, a.tx>>
         [] c.op \in {"send", "sendTransaction"} -> <<a.tx>>
         [] c.op = "contractKey" -> <<a.address>>

\* C23: each Private Transaction operation sends one envelope with the
\* method and the parameters of the table; the gas price of
\* composeDeploymentTx is "0x0" when the caller omits it and the caller's
\* value otherwise; transaction objects and lists are passed as they came.
C23_PrivateEnvelopesFollowTable ==
    \A i \in DOMAIN calls :
        LET c == calls[i]
        IN c.op \in PrivateOps
               => c.requests =
                      << [t |-> "object",
                          props |-> << [key |-> <<"j", "s", "o", "n", "r", "p", "c">>, val |-> [t |-> "string", chars |-> <<"2", ".", "0">>]],
                                       [key |-> <<"m", "e", "t", "h", "o", "d">>, val |-> [t |-> "string", chars |-> TablePrivateMethod(c)]],
                                       [key |-> <<"p", "a", "r", "a", "m", "s">>, val |-> [t |-> "array", items |-> TablePrivateParams(c)]],
                                       [key |-> <<"i", "d">>, val |-> [t |-> "number", n |-> 1]] >>] >>

\* composeDeploymentTx was called without a gas price and sent "0x0"
C23_Witness ==
    \E i \in DOMAIN calls :
        /\ calls[i].op = "composeDeploymentTx"
        /\ calls[i].args.gasPrice = Undefined
        /\ Len(calls[i].requests) = 1
        /\ GetProp(calls[i].requests[1], <<"p", "a", "r", "a", "m", "s">>).items[4] = Str(<<"0", "x", "0">>)

\* composeDeploymentTx was called with the gas price "0x1" and sent it
C23_WitnessGiven ==
    \E i \in DOMAIN calls :
        /\ calls[i].op = "composeDeploymentTx"
        /\ calls[i].args.gasPrice = Str(<<"0", "x", "1">>)
        /\ Len(calls[i].requests) = 1
        /\ GetProp(calls[i].requests[1], <<"p", "a", "r", "a", "m", "s">>).items[4] = Str(<<"0", "x", "1">>)

\* calls i and j are the same call made twice with the same answer: the
\* same function with the same arguments, callbacks invoked once with the
\* same arguments
SameCallSameAnswer(i, j) ==
    /\ calls[i].file = calls[j].file
    /\ calls[i].op = calls[j].op
    /\ calls[i].args = calls[j].args
    /\ calls[i].verbose = calls[j].verbose
    /\ Len(calls[i].delivered) = 1
    /\ calls[i].delivered = calls[j].delivered

\* a step changes the record of at most one call, and only by invoking its
\* callback
OneCallChanges ==
    \A i \in DOMAIN calls :
        calls'[i] # calls[i]
            => /\ calls'[i].delivered # calls[i].delivered
               /\ \A j \in DOMAIN calls \ {i} : calls'[j] = calls[j]

C24_WitnessPending ==
    /\ Len(calls) = 2
    /\ calls[1].op # calls[2].op
    /\ calls[1].awaiting /\ calls[2].awaiting

\* C25: on status 200 with no connection error every HTTP session
\* operation resolves, whatever the body is: a body without the expected
\* shape of the endpoint (an unquoted string where a quoted one is
\* expected, a body that is not JSON for shadowRetrieveDocumentKey) is
\* passed to the caller and gives neither a rejection nor a promise left
\* pending.
C25_Status200AlwaysResolves ==
    \A i \in DOMAIN calls :
        LET c == calls[i]
        IN (IsSessionCall(c) /\ CalledBack(c) /\ OkStatus(c)) => c.state = "fulfilled"

\* call j decrypts with the key material of the encrypt call 1: the same
\* key for decrypt, the shadows of that key for shadowDecrypt
SameKeyMaterial(j) ==
    LET k == calls[1].args.encryptedKey
        a == calls[j].args
    IN /\ calls[1].op = "encrypt"
       /\ a.account = calls[1].args.account
       /\ \/ calls[j].op = "decrypt" /\ a.encryptedKey = k
          \/ /\ calls[j].op = "shadowDecrypt"
             /\ a.decryptedSecret = Str(k.chars \o <<"1">>)
             /\ a.commonPoint = Str(k.chars \o <<"2">>)
             /\ a.decryptShadows = Arr(<<Str(k.chars \o <<"3">>)>>)

\* C26: encrypt, then decrypt is a round trip through the facade: with a
\* node whose secretstore_decrypt and secretstore_shadowDecrypt invert its
\* secretstore_encrypt for the same account and key material, decrypt and
\* shadowDecrypt of the value encrypt resolved with both resolve with
\* exactly the document that was encrypted.
C26_EncryptDecryptRoundTrip ==
    \A j \in DOMAIN calls :
        (j > 1 /\ SameKeyMaterial(j) /\ CalledBack(calls[j]))
            => /\ calls[j].args.encryptedDocument = calls[1].value
               /\ calls[j].state = "fulfilled"
               /\ calls[j].value = calls[1].args.hexDocument

\* decrypt resolved with the document "0xcc" that encrypt was given
C26_Witness ==
    /\ Len(calls) = 2
    /\ SameKeyMaterial(2)
    /\ calls[2].op = "decrypt"
    /\ calls[1].args.hexDocument = Str(<<"0", "x", "c", "c">>)
    /\ calls[2].state = "fulfilled"
    /\ calls[2].value = Str(<<"0", "x", "c", "c">>)

\* shadowDecrypt resolved with the document "cc" that encrypt was given
C26_WitnessShadow ==
    /\ Len(calls) = 2
    /\ SameKeyMaterial(2)
    /\ calls[2].op = "shadowDecrypt"
    /\ calls[1].args.hexDocument = Str(<<"c", "c">>)
    /\ calls[2].state = "fulfilled"
    /\ calls[2].value = Str(<<"c", "c">>)

\* C27: remove0x is idempotent and its result never starts with 0x:
\* remove0x(remove0x(v)) = remove0x(v) for every input v, so that a path
\* segment built from a hex parameter never begins with 0x.
C27_Remove0xIdempotent ==
    \A i \in UtilsCalls("remove0x") :
        LET out == calls[i].value
        IN /\ ~(Len(out.chars) >= 2 /\ out.chars[1] = "0" /\ out.chars[2] = "x")
           /\ remove0x(out) = out.chars

\* the text of value v starts with the characters p
TextStartsWith(v, p) ==
    LET text == IF v.t \in {"undefined", "null"} THEN << >> ELSE ToStringChars(v)
    IN Len(text) >= Len(p) /\ \A n \in 1..Len(p) : text[n] = p[n]

\* C27 as the code has it: remove0x removes one 0x prefix: its result
\* starts with 0x exactly when the text of the input starts with 0x0x, and
\* remove0x(remove0x(v)) = remove0x(v) for every other input v.
C27_Remove0xStripsOnce ==
    \A i \in UtilsCalls("remove0x") :
        LET val == calls[i].args.val
            out == calls[i].value
        IN /\ TextStartsWith(out, <<"0", "x">>) <=> TextStartsWith(val, <<"0", "x", "0", "x">>)
           /\ ~TextStartsWith(val, <<"0", "x", "0", "x">>) => remove0x(out) = out.chars

\* remove0x("0x0xaa") returned "0xaa"
C27_Witness ==
    \E i \in UtilsCalls("remove0x") :
        /\ calls[i].args.val = Str(<<"0", "x", "0", "x", "a", "a">>)
        /\ calls[i].value = Str(<<"0", "x", "a", "a">>)

\* C28: the promise of a call settles at most once: when the transport
\* invokes the callback of one call several times with different
\* outcomes, the promise keeps the state and the value it has after the
\* first invocation; later invocations change neither.
C28_FirstInvocationDecides ==
    [][ \A i \in DOMAIN calls :
            CalledBack(calls[i])
                => /\ calls'[i].state = calls[i].state
                   /\ calls'[i].value = calls[i].value ]_vars

\* the callback of JSON-RPC call c got no transport error and a response
\* envelope
Answered(c) ==
    /\ IsRpcCall(c)
    /\ CalledBack(c)
    /\ Cb(c).e = [t |-> "null"]
    /\ Cb(c).r.t = "object"

\* C29: for every JSON-RPC operation with no transport error the outcome
\* depends only on whether the error member of the response is undefined:
\* a response without an error member resolves with its result, with
\* undefined when it has no result either; a response whose error member
\* is present, be it null, is rejected with that member, even when the
\* response carries a result too.
C29_ErrorMemberDecides ==
    \A i \in DOMAIN calls :
        LET c == calls[i]
            r == Cb(c).r
        IN Answered(c)
               => IF HasProp(r, <<"e", "r", "r", "o", "r">>)
                  THEN c.state = "rejected" /\ c.value = GetProp(r, <<"e", "r", "r", "o", "r">>)
                  ELSE /\ c.state = "fulfilled"
                       /\ c.value = IF HasProp(r, <<"r", "e", "s", "u", "l", "t">>) THEN GetProp(r, <<"r", "e", "s", "u", "l", "t">>) ELSE [t |-> "undefined"]

\* a response with error: null and a result was rejected with null
C29_Witness ==
    \E i \in DOMAIN calls :
        /\ Answered(calls[i])
        /\ GetProp(Cb(calls[i]).r, <<"e", "r", "r", "o", "r">>) = Null
        /\ HasProp(Cb(calls[i]).r, <<"r", "e", "s", "u", "l", "t">>)
        /\ calls[i].state = "rejected"
        /\ calls[i].value = Null

\* a response with neither error nor result resolved with undefined
C29_WitnessEmpty ==
    \E i \in DOMAIN calls :
        /\ Answered(calls[i])
        /\ Cb(calls[i]).r = Obj(<< >>)
        /\ calls[i].state = "fulfilled"
        /\ calls[i].value = Undefined

\* a value with the name of the session error class left out of account
ClassNameErased(v) ==
    IF IsSessionError(v) THEN [v EXCEPT !.name = "session error"] ELSE v

\* C30: the two copies of the operations are equivalent: the function of
\* secretstore.js and the function of secretstore/session.js (for the
\* eight HTTP operations) or of the separate RPC module (for the six RPC
\* operations), given the same arguments and the same transport outcome,
\* issue the same request and end in the same promise state with the same
\* value, up to the name of the session error class (SSRequestError or
\* SecretStoreSessionError).
C30_CopiesEquivalent ==
    Len(calls) = 2
        => /\ calls[1].requests = calls[2].requests
           /\ calls[1].state = "rejected" /\ IsSessionError(calls[1].value)
                  => calls[1].value.name = "SecretStoreSessionError"
           /\ calls[2].state = "rejected" /\ IsSessionError(calls[2].value)
                  => calls[2].value.name = "SSRequestError"
           /\ (CalledBack(calls[1]) /\ CalledBack(calls[2]))
                  => /\ calls[1].state = calls[2].state
                     /\ ClassNameErased(calls[1].value) = ClassNameErased(calls[2].value)

\* generateServerKey of both files was answered with status 500: both
\* promises are rejected, each with the session error of its file
C30_Witness ==
    /\ Len(calls) = 2
    /\ calls[1].file = "secretstore/session.js"
    /\ calls[1].op = "generateServerKey"
    /\ calls[2].file = "secretstore.js"
    /\ CalledBack(calls[1]) /\ CalledBack(calls[2])
    /\ calls[1].state = "rejected" /\ calls[1].value.name = "SecretStoreSessionError"
    /\ calls[2].state = "rejected" /\ calls[2].value.name = "SSRequestError"

\* serversSetHash of both files sent the same envelope and resolved with
\* the same result
C30_WitnessRpc ==
    /\ Len(calls) = 2
    /\ calls[1].file = "unnamed/part_000"
    /\ calls[1].op = "serversSetHash"
    /\ calls[2].file = "secretstore.js"
    /\ calls[1].requests = calls[2].requests
    /\ calls[1].state = "fulfilled" /\ calls[2].state = "fulfilled"
    /\ calls[1].value = calls[2].value
=============================================================================
